---- MODULE Spec2Model ----
(***************************************************************************)
(* Ledger core of Open-Papertrade: market orders, limit orders, transfers  *)
(* and the XP/achievement bookkeeping that the trade handlers call.        *)
(*                                                                         *)
(* Units.  Stored money (buying_power, Trade.total, Transfer amounts) is   *)
(* in cents, the precision of the DecimalField(decimal_places=2) columns.  *)
(* Prices, and money while a handler computes with it, are in parts of a   *)
(* cent (CentParts to the cent): a price column keeps 6 decimals, so       *)
(* shares * price need not be a whole number of cents, and the column      *)
(* rounds when the row is saved.  Shares are in units of the shares        *)
(* column (8 decimals); a request may ask for less than half a unit more   *)
(* (dust).  avg_cost is in micros (10^-6 of a currency unit).  Columns     *)
(* round as PostgreSQL numeric does, ties away from zero                   *)
(* (settings.py: PostgreSQL unless DEBUG).                                 *)
(***************************************************************************)
EXTENDS Integers, Sequences, FiniteSets, TLC

\* ---------------------------------------------------------------- bounds
InitialBalance == 4
MaxShares == 2
MaxPrice == 4
CentParts == 2
MaxTrades == 2
MaxOrders == 1
MaxTransfers == 1
MaxConcTrades == 3
MaxAmount == 2
MaxFriendTransfers == 2

\* ------------------------------------------------------- program constants
CentMicros == 10000
XP_TRADE_EXECUTED == 25
XP_FIRST_TRADE_BONUS == 75
XP_PROFITABLE_SELL == 50
XP_ACHIEVEMENT_UNLOCKED == 100
XP_5_HOLDINGS == 150
XP_10_HOLDINGS == 250

RANK_LADDER ==
    << [level |-> 1, title |-> "Retail Trader", required |-> 0],
       [level |-> 2, title |-> "Day Trader", required |-> 500],
       [level |-> 3, title |-> "Swing Trader", required |-> 1500],
       [level |-> 4, title |-> "Floor Trader", required |-> 4000],
       [level |-> 5, title |-> "Fund Manager", required |-> 8000],
       [level |-> 6, title |-> "Market Maker", required |-> 15000],
       [level |-> 7, title |-> "Wall Street Legend", required |-> 30000] >>

\* Non-special rows of the achievements table as seeded.
Achievements ==
    { [id |-> "first_trade", requirement_type |-> "trades_count", requirement_value |-> 1],
      [id |-> "trader_10", requirement_type |-> "trades_count", requirement_value |-> 10],
      [id |-> "trader_50", requirement_type |-> "trades_count", requirement_value |-> 50],
      [id |-> "trader_100", requirement_type |-> "trades_count", requirement_value |-> 100],
      [id |-> "profit_1000", requirement_type |-> "profit_amount", requirement_value |-> 1000],
      [id |-> "profit_10000", requirement_type |-> "profit_amount", requirement_value |-> 10000],
      [id |-> "diversified_5", requirement_type |-> "holdings_count", requirement_value |-> 5],
      [id |-> "diversified_10", requirement_type |-> "holdings_count", requirement_value |-> 10],
      [id |-> "watchlist_10", requirement_type |-> "watchlist_count", requirement_value |-> 10] }

\* The ids in the order of the table.
AchievementOrder ==
    << "first_trade", "trader_10", "trader_50", "trader_100", "profit_1000",
       "profit_10000", "diversified_5", "diversified_10", "watchlist_10" >>

\* ------------------------------------------------------------ the universe
Users == {"alice", "bob", "carol"}
\* The users whose requests interleave with the trader's.
Peers == {"alice", "bob"}
Traders == {"alice"}
\* The symbols the ledger specifications trade: a US stock, a crypto pair
\* and an Indian stock.
Listed == {"AAPL", "BTC-USD", "TCS.NS"}
\* Further US stocks, in the order in which a portfolio or a watchlist
\* takes them up, and every symbol of the model.
SymbolOrder == << "AAPL", "BTC-USD", "MSFT", "GOOG", "AMZN", "TSLA", "NVDA", "META",
                 "IBM", "F", "T" >>
Symbols == Listed \cup { SymbolOrder[i] : i \in 1..Len(SymbolOrder) }
Markets == {"US", "IN"}
Procs == {"p1", "p2"}

\* The rows of the friendships table and each user's settings.currency.
Friendship ==
    { [from_user |-> "alice", to_user |-> "bob", status |-> "accepted"],
      [from_user |-> "carol", to_user |-> "alice", status |-> "accepted"],
      [from_user |-> "bob", to_user |-> "carol", status |-> "pending"] }
SettingsCurrency == [u \in Users |-> IF u = "bob" THEN "EUR" ELSE "USD"]
\* Exchange rates vs USD as the rate oracle returns them (model scale).
Rates == [c \in {"USD", "EUR"} |-> IF c = "EUR" THEN 3 ELSE 1]

\* ------------------------------------------------------------ arithmetic
Abs(x) == IF x < 0 THEN -x ELSE x

\* n / d for d > 0, rounded to the nearest integer, ties to even
\* (Decimal.quantize under the default context, ROUND_HALF_EVEN).
RoundHalfEven(n, d) ==
    LET q == n \div d
        r == n % d
    IN  IF 2 * r < d THEN q
        ELSE IF 2 * r > d THEN q + 1
        ELSE IF q % 2 = 0 THEN q ELSE q + 1

\* n / d for n >= 0 and d > 0 as a numeric column stores it: rounded to
\* the nearest unit, ties away from zero.
RoundColumn(n, d) == (2 * n + d) \div (2 * d)

\* Micros in one part of a cent.
PartMicros == CentMicros \div CentParts

\* ------------------------------------------------------------ the state
VARIABLES
    buying_power,   \* UserProfile.buying_power, per user (cents)
    initial_balance,    \* UserProfile.initial_balance (cents)
    last_reset_at,  \* UserProfile.last_reset_at: whether it is set
    xp,             \* UserProfile.xp
    level,          \* UserProfile.level
    rank,           \* UserProfile.rank
    market,         \* UserSettings.market
    holdings,       \* the holdings table: per user and symbol, a row or none
    next_id,        \* next primary key of the holdings table
    trades,         \* the trades table, oldest first
    orders,         \* the limit_orders table; an order's id is its index
    unlocked,       \* the user_achievements table, oldest row first
    transfers,      \* the transfers table, oldest first
    last,           \* history: the last request that wrote to the database,
                    \* and its response
    procs,          \* requests in flight (concurrent specification only)
    cash_effect,    \* history: per user, the sum of the cash effects of the
                    \* requests answered with success
    gate,           \* a call of is_market_open: its arguments, what the
                    \* status oracle and the clock hold, and the result
    watchlist,      \* the watchlist table: per user, the symbols on it
    validation,     \* a call of is_symbol_valid_for_market: its arguments
                    \* and the result
    tx,             \* a request running step by step: its position, and
                    \* the log of its oracle calls
    milestones      \* history: per user, the holdings-milestone bonuses
                    \* awarded since the account was created or last reset

vars == << buying_power, xp, level, rank, market, holdings, next_id, trades,
           orders, unlocked, transfers, last, procs, cash_effect, gate,
           watchlist, validation, tx, initial_balance, last_reset_at, milestones >>

\* The database as one value, so that a handler is a function from the
\* database (and what the request already holds in memory) to a result.
DB == [ buying_power |-> buying_power, xp |-> xp, level |-> level, rank |-> rank,
        market |-> market, holdings |-> holdings, next_id |-> next_id,
        trades |-> trades, orders |-> orders, unlocked |-> unlocked,
        transfers |-> transfers, watchlist |-> watchlist,
        initial_balance |-> initial_balance, last_reset_at |-> last_reset_at ]

NoHolding == [exists |-> FALSE, id |-> 0, shares |-> 0, avg_cost |-> 0]

\* The in-memory UserProfile instance loaded from row u of database D;
\* its buying_power is in parts of a cent.
LoadUser(D, u) ==
    [ buying_power |-> D.buying_power[u] * CentParts, xp |-> D.xp[u],
      level |-> D.level[u], rank |-> D.rank[u],
      initial_balance |-> D.initial_balance[u], last_reset_at |-> D.last_reset_at[u] ]

\* user.save(): every field of the in-memory instance overwrites the row;
\* the buying_power column keeps whole cents.
SaveUser(D, u, U) ==
    [ D EXCEPT !.buying_power[u] = RoundColumn(U.buying_power, CentParts), !.xp[u] = U.xp,
               !.level[u] = U.level, !.rank[u] = U.rank,
               !.initial_balance[u] = U.initial_balance,
               !.last_reset_at[u] = U.last_reset_at ]

\* user.save(update_fields=['xp', 'rank', 'level']).
SaveUserXp(D, u, U) ==
    [ D EXCEPT !.xp[u] = U.xp, !.level[u] = U.level, !.rank[u] = U.rank ]

\* ------------------------------------------------- market gate, validator
\* A string is the sequence of its characters.  The symbols of the model,
\* spelled out, and the three strings market_hours.py looks for.
Spelling ==
    [s \in Symbols \cup {""} |->
        CASE s = "AAPL" -> << "A", "A", "P", "L" >>
          [] s = "BTC-USD" -> << "B", "T", "C", "-", "U", "S", "D" >>
          [] s = "TCS.NS" -> << "T", "C", "S", ".", "N", "S" >>
          [] s = "MSFT" -> << "M", "S", "F", "T" >>
          [] s = "GOOG" -> << "G", "O", "O", "G" >>
          [] s = "AMZN" -> << "A", "M", "Z", "N" >>
          [] s = "TSLA" -> << "T", "S", "L", "A" >>
          [] s = "NVDA" -> << "N", "V", "D", "A" >>
          [] s = "META" -> << "M", "E", "T", "A" >>
          [] s = "IBM" -> << "I", "B", "M" >>
          [] s = "F" -> << "F" >>
          [] s = "T" -> << "T" >>
          [] OTHER -> << >>]
DashUsd == << "-", "U", "S", "D" >>
DotNs == << ".", "N", "S" >>
DotBo == << ".", "B", "O" >>

\* str.upper() on the characters the model uses.
UpperChar ==
    [c \in {"a", "b", "d", "n", "o", "s", "u"} |->
        CASE c = "a" -> "A" [] c = "b" -> "B" [] c = "d" -> "D" [] c = "n" -> "N"
          [] c = "o" -> "O" [] c = "s" -> "S" [] c = "u" -> "U"]
upper(str) ==
    [i \in 1..Len(str) |-> IF str[i] \in DOMAIN UpperChar THEN UpperChar[str[i]] ELSE str[i]]

\* "sub in str" and str.endswith(suffix).
Contains(str, sub) ==
    \E i \in 0..(Len(str) - Len(sub)) : SubSeq(str, i + 1, i + Len(sub)) = sub
EndsWith(str, suffix) ==
    /\ Len(str) >= Len(suffix)
    /\ SubSeq(str, Len(str) - Len(suffix) + 1, Len(str)) = suffix

\* "'-USD' in symbol.upper()" (market_hours.py 101 and 173).
IsCrypto(str) == Contains(upper(str), DashUsd)

\* Mutant: only the .NS suffix marks an Indian symbol.
is_indian_symbol_NsOnly(str) == EndsWith(upper(str), DotNs)

\* "upper.endswith('.NS') or upper.endswith('.BO')" (market_hours.py 176).
is_indian_symbol(str) == EndsWith(upper(str), DotNs) \/ EndsWith(upper(str), DotBo)

\* The two string tests on a symbol of the model.
ContainsUsd(symbol) == IsCrypto(Spelling[symbol])
IsIndianSymbol(symbol) == is_indian_symbol(Spelling[symbol])

\* A datetime: its wall-clock weekday (Monday = 0) and minute of the day,
\* whether it is timezone-aware and then its UTC offset in minutes, and
\* whether New York keeps daylight time on its date.  NoNow is None.
NoNow == [given |-> FALSE, weekday |-> 0, minute |-> 0, aware |-> FALSE,
          utcoffset |-> 0, dst |-> FALSE]
Datetime(weekday, minute, aware, utcoffset, dst) ==
    [given |-> TRUE, weekday |-> weekday, minute |-> minute, aware |-> aware,
     utcoffset |-> utcoffset, dst |-> dst]

\* open and close are minutes of the day.
MARKET_SCHEDULES ==
    [m \in {"US", "IN"} |->
        IF m = "US"
        THEN [name |-> "US (NYSE)", timezone |-> "America/New_York",
              open |-> 9 * 60 + 30, close |-> 16 * 60]
        ELSE [name |-> "India (NSE)", timezone |-> "Asia/Kolkata",
              open |-> 9 * 60 + 15, close |-> 15 * 60 + 30]]

\* MARKET_SCHEDULES.get(market, MARKET_SCHEDULES['US'])
ScheduleOf(mkt) ==
    IF mkt \in DOMAIN MARKET_SCHEDULES THEN MARKET_SCHEDULES[mkt] ELSE MARKET_SCHEDULES["US"]

\* The UTC offset of a zone on the date of dt, in minutes.
ZoneOffset(timezone, dt) ==
    IF timezone = "Asia/Kolkata" THEN 5 * 60 + 30
    ELSE IF dt.dst THEN -4 * 60 ELSE -5 * 60

\* Mutant: the wall clock of the datetime is taken for the market's.
ToZone_Wall(dt, timezone) == [weekday |-> dt.weekday, minute |-> dt.minute]

\* now.replace(tzinfo=UTC).astimezone(tz) for a naive datetime and
\* now.astimezone(tz) for an aware one: weekday and minute in the zone.
ToZone(dt, timezone) ==
    LET utc == dt.weekday * 1440 + dt.minute - (IF dt.aware THEN dt.utcoffset ELSE 0)
        there == (utc + ZoneOffset(timezone, dt)) % (7 * 1440)
    IN  [weekday |-> there \div 1440, minute |-> there % 1440]

\* _is_market_open_schedule(market, now); clock is what datetime.now(tz)
\* returns.
_is_market_open_schedule(mkt, now, clock) ==
    LET schedule == ScheduleOf(mkt)
        local == ToZone(IF now.given THEN now ELSE clock, schedule.timezone)
    IN  IF local.weekday >= 5
        THEN [raised |-> FALSE, is_open |-> FALSE, source |-> "schedule",
              market_name |-> schedule.name]
        ELSE IF local.minute < schedule.open \/ local.minute >= schedule.close
        THEN [raised |-> FALSE, is_open |-> FALSE, source |-> "schedule",
              market_name |-> schedule.name]
        ELSE [raised |-> FALSE, is_open |-> TRUE, source |-> "schedule",
              market_name |-> schedule.name]

\* Mutant: an exception of the status oracle is not caught.
Caught_Propagates(status) == status

\* try: ... except Exception: log (market_hours.py 119-153).  status is
\* what service.get_market_status does: it returns a status that says
\* "open" or "closed", returns None ("none"), or raises ("raises"); a
\* caught exception leaves the call where None does.
Caught(status) == IF status = "raises" THEN "none" ELSE status

\* is_market_open(market, symbol, now), with what the status oracle does
\* when asked and what the clock shows.
is_market_open(mkt, symbol, now, status, clock) ==
    IF ContainsUsd(symbol)
    THEN [raised |-> FALSE, is_open |-> TRUE, source |-> "local", market_name |-> "Crypto"]
    ELSE IF now.given THEN _is_market_open_schedule(mkt, now, clock)
    ELSE LET answer == Caught(status)
         IN  IF answer = "raises"
             THEN [raised |-> TRUE, is_open |-> FALSE, source |-> "", market_name |-> ""]
             ELSE IF answer = "open"
             THEN [raised |-> FALSE, is_open |-> TRUE, source |-> "finnhub",
                   market_name |-> ScheduleOf(mkt).name]
             ELSE IF answer = "closed"
             THEN [raised |-> FALSE, is_open |-> FALSE, source |-> "finnhub",
                   market_name |-> ScheduleOf(mkt).name]
             ELSE _is_market_open_schedule(mkt, NoNow, clock)

\* The gate as the trade handler calls it, is_market_open(user_market,
\* symbol)['is_open'], at a time when the status oracle answers: gate_open
\* says whether its answer is open.
MarketOpenNow(mkt, symbol, gate_open) ==
    is_market_open(mkt, symbol, NoNow, IF gate_open THEN "open" ELSE "closed", NoNow).is_open

\* is_symbol_valid_for_market(symbol, market) on a string: the pair
\* (is_valid, error_message).  The message is the f-string's pieces: the
\* symbol as passed, the text around it, and the market's label.
is_symbol_valid_for_market(symbol, mkt) ==
    IF IsCrypto(symbol) THEN [valid |-> TRUE, message |-> << >>]
    ELSE IF mkt = "IN" /\ ~is_indian_symbol(symbol)
    THEN [valid |-> FALSE,
          message |-> << symbol, " is not available in the ", "India (NSE/BSE)", " market" >>]
    ELSE IF mkt = "US" /\ is_indian_symbol(symbol)
    THEN [valid |-> FALSE,
          message |-> << symbol, " is not available in the ", "US", " market" >>]
    ELSE [valid |-> TRUE, message |-> << >>]

\* The validator as the trade handler calls it on a symbol of the model.
SymbolValidNow(symbol, mkt) == is_symbol_valid_for_market(Spelling[symbol], mkt).valid

\* ------------------------------------------------------------ gamification
get_rank_for_xp(x) ==
    LET ok == { i \in 1..Len(RANK_LADDER) : x >= RANK_LADDER[i].required }
    IN  IF ok = {} THEN [level |-> 1, rank |-> "Retail Trader"]
        ELSE LET i == CHOOSE k \in ok : \A j \in ok : j <= k
             IN  [level |-> RANK_LADDER[i].level, rank |-> RANK_LADDER[i].title]

\* Mutant: the XP is added and level and rank are left as they are.
award_xp_KeepsRank(U, amount) == [U EXCEPT !.xp = U.xp + amount]

\* award_xp(user, amount) on the in-memory instance U; the caller saves
\* with SaveUserXp.
award_xp(U, amount) ==
    LET x == U.xp + amount
        r == get_rank_for_xp(x)
    IN  [U EXCEPT !.xp = x, !.level = r.level, !.rank = r.rank]

TradesOf(D, u) == { i \in 1..Len(D.trades) : D.trades[i].user = u }
HoldingsCount(D, u) == Cardinality({ s \in Symbols : D.holdings[u][s].exists })
WatchlistCount(D, u) == Cardinality(D.watchlist[u])

RECURSIVE SumShares(_, _)
SumShares(tr, idx) ==
    IF idx = {} THEN 0
    ELSE LET i == CHOOSE k \in idx : TRUE
         IN  tr[i].shares + SumShares(tr, idx \ {i})

RECURSIVE SumCost(_, _)
SumCost(tr, idx) ==
    IF idx = {} THEN 0
    ELSE LET i == CHOOSE k \in idx : TRUE
         IN  tr[i].price * tr[i].shares + SumCost(tr, idx \ {i})

RECURSIVE SumTotal(_, _)
SumTotal(tr, idx) ==
    IF idx = {} THEN 0
    ELSE LET i == CHOOSE k \in idx : TRUE
         IN  tr[i].total + SumTotal(tr, idx \ {i})

\* BUY trades of user u in symbol among the trades with index <= upto.
BuysUpTo(D, u, symbol, upto) ==
    { i \in 1..upto : /\ D.trades[i].user = u
                      /\ D.trades[i].symbol = symbol
                      /\ D.trades[i].trade_type = "BUY" }

\* Profit of the SELL trade at index i, in parts of a cent:
\* (sell.price - avg_buy_price) * sell.shares with avg_buy_price the average
\* over the BUY trades of the symbol executed no later than the sale.
SellProfit(D, u, i) ==
    LET sell == D.trades[i]
        buys == BuysUpTo(D, u, sell.symbol, i)
        cost == SumCost(D.trades, buys)
        n == SumShares(D.trades, buys)
    IN  IF buys = {} \/ n = 0 THEN 0
        ELSE RoundHalfEven((sell.price * n - cost) * sell.shares, n)

RECURSIVE SumProfit(_, _, _)
SumProfit(D, u, idx) ==
    IF idx = {} THEN 0
    ELSE LET i == CHOOSE k \in idx : TRUE
         IN  SellProfit(D, u, i) + SumProfit(D, u, idx \ {i})

_calculate_realized_profit(D, u) ==
    SumProfit(D, u, { i \in TradesOf(D, u) : D.trades[i].trade_type = "SELL" })

\* The counter of a requirement type; profit_amount and requirement_value
\* are in currency units of 100 cents.
CounterOf(D, u, a) ==
    CASE a.requirement_type = "trades_count" -> Cardinality(TradesOf(D, u))
      [] a.requirement_type = "holdings_count" -> HoldingsCount(D, u)
      [] a.requirement_type = "watchlist_count" -> WatchlistCount(D, u)
      [] a.requirement_type = "profit_amount" -> _calculate_realized_profit(D, u) \div (100 * CentParts)
      [] OTHER -> 0

\* unlocked_ids: the achievements user u has a row for.
UnlockedIds(D, u) ==
    { D.unlocked[i].achievement : i \in { j \in 1..Len(D.unlocked) : D.unlocked[j].user = u } }

\* Mutant: rows already unlocked stay candidates.
Candidates_All(D, u) == Achievements

\* Achievement.objects.exclude(id__in=unlocked_ids).exclude(
\* requirement_type='special')
Candidates(D, u) == { c \in Achievements : c.id \notin UnlockedIds(D, u) }

\* check_achievements(user), lines 18-56: the ids newly earned.
NewlyEarned(D, u) ==
    { a.id : a \in { c \in Candidates(D, u) : CounterOf(D, u, c) >= c.requirement_value } }

\* Mutant: the table has no unique constraint.
Conflicts_Never(rows, u, id) == FALSE

\* unique_together = ['user', 'achievement'] (models.py 322): a row for
\* the pair is there.
Conflicts(rows, u, id) ==
    \E i \in 1..Len(rows) : rows[i].user = u /\ rows[i].achievement = id

\* UserAchievement.objects.bulk_create([...], ignore_conflicts=True): the
\* rows for ids, in the order of the achievements table, each inserted
\* unless it conflicts.
RECURSIVE InsertUnlocks(_, _, _, _)
InsertUnlocks(rows, u, ids, k) ==
    IF k > Len(AchievementOrder) THEN rows
    ELSE LET id == AchievementOrder[k]
         IN  IF id \in ids /\ ~Conflicts(rows, u, id)
             THEN InsertUnlocks(Append(rows, [user |-> u, achievement |-> id]), u, ids, k + 1)
             ELSE InsertUnlocks(rows, u, ids, k + 1)

bulk_create(D, u, ids) == [D EXCEPT !.unlocked = InsertUnlocks(@, u, ids, 1)]

\* check_achievements(user) run without interruption: the database it
\* leaves; the list it returns is NewlyEarned(D, u).
check_achievements(D, u) == bulk_create(D, u, NewlyEarned(D, u))

\* Mutant: the bonuses are awarded from the threshold on.
MilestoneBonus_Threshold(D, u) ==
    IF HoldingsCount(D, u) >= 10 THEN XP_10_HOLDINGS
    ELSE IF HoldingsCount(D, u) >= 5 THEN XP_5_HOLDINGS ELSE 0

\* "Holdings milestones" (xp_service.py 63-68): the bonus of a trade that
\* leaves user u with the holdings of D.
MilestoneBonus(D, u) ==
    IF HoldingsCount(D, u) = 5 THEN XP_5_HOLDINGS
    ELSE IF HoldingsCount(D, u) = 10 THEN XP_10_HOLDINGS ELSE 0

\* award_trade_xp(user, trade_type, sell_price, avg_buy_price): the XP
\* gained.  avg_buy_price is over every BUY trade of the symbol; None when
\* there is none.
TradeXpGained(D, u, trade_type, symbol, sell_price) ==
    LET buys == BuysUpTo(D, u, symbol, Len(D.trades))
        cost == SumCost(D.trades, buys)
        n == SumShares(D.trades, buys)
        first == IF Cardinality(TradesOf(D, u)) = 1 THEN XP_FIRST_TRADE_BONUS ELSE 0
        profit == IF /\ trade_type = "SELL"
                     /\ buys # {}
                     /\ (IF n > 0 THEN sell_price * n > cost ELSE sell_price > 0)
                  THEN XP_PROFITABLE_SELL ELSE 0
    IN  XP_TRADE_EXECUTED + first + profit + MilestoneBonus(D, u)

\* Lines "check achievements / award XP" shared by ExecuteTradeView.post and
\* FillLimitOrderView.post, after the trade row was created: D is the
\* database with the trade, U the request's in-memory user.
Gamify(D, u, U, trade_type, symbol, price) ==
    LET new == NewlyEarned(D, u)
        D1 == check_achievements(D, u)
        U1 == award_xp(U, TradeXpGained(D1, u, trade_type, symbol, price))
        D2 == SaveUserXp(D1, u, U1)
        U2 == IF new = {} THEN U1
              ELSE award_xp(U1, Cardinality(new) * XP_ACHIEVEMENT_UNLOCKED)
    IN  IF new = {} THEN D2 ELSE SaveUserXp(D2, u, U2)

\* ---------------------------------------------------------------- results
\* What a handler returns: the database it leaves, the HTTP status, the
\* error (or "" on success), and the cash effect on the requesting user
\* and on a transfer's recipient that a success response stands for.
Reject(D, status, error) ==
    [db |-> D, status |-> status, error |-> error, cash |-> 0, to |-> "", credit |-> 0]

Success(D, status, cash) ==
    [db |-> D, status |-> status, error |-> "", cash |-> cash, to |-> "", credit |-> 0]

\* ------------------------------------------------------ the guards
\* Mutant: the funds check is skipped.
InsufficientFunds_Off(amount, U) == FALSE

\* "if total > user.buying_power" (views.py 353, 629) and
\* "if amount > user.buying_power" (views.py 887).
InsufficientFunds(amount, U) == amount > U.buying_power

\* "shares <= 0" (views.py 325) on a request for shares + e shares.
IsNotPositive(shares, dust) == shares < 0 \/ (shares = 0 /\ ~dust)

\* Mutant: the shares check is skipped.
InsufficientShares_Off(shares, H) == FALSE

\* "if shares > holding.shares" (views.py 394, 646, 772).
InsufficientShares(shares, H) == shares > H.shares

\* Mutant: the emptied row is never deleted.
HoldingEmptied_Never(left) == FALSE

\* "if holding.shares == 0" after the decrement (views.py 406, 786).
HoldingEmptied(left) == left = 0

\* ---------------------------------------------------------- holdings rows
\* The amount of shares a request asks for, in half units of the shares
\* column: shares whole units and, with half, half a unit more.
HalfUnits(shares, half) == 2 * shares + (IF half THEN 1 ELSE 0)

\* holding.save() of an instance read earlier: UPDATE by primary key, and
\* when no row has that key any more, INSERT, which the unique
\* (user, symbol) constraint refuses if another row took the place.
SaveHolding(D, u, symbol, H) ==
    LET row == D.holdings[u][symbol]
    IN  IF row.exists /\ row.id # H.id
        THEN [ok |-> FALSE, db |-> D]
        ELSE [ok |-> TRUE, db |-> [D EXCEPT !.holdings[u][symbol] = H]]

\* holding.delete(): DELETE by primary key; no row, no error.
DeleteHolding(D, u, symbol, H) ==
    LET row == D.holdings[u][symbol]
    IN  IF row.exists /\ row.id = H.id
        THEN [D EXCEPT !.holdings[u][symbol] = NoHolding]
        ELSE D

\* avg_cost after buying shares at price into holding H, in micros.
\* A row of zero stored shares bought into with a sub-quantum amount gets
\* the price: (0 * avg_cost + e * price) / (0 + e).
NewAvgCost_LastPrice(H, shares, half, price) == price * PartMicros

NewAvgCost(H, shares, half, price) ==
    LET asked == HalfUnits(shares, half)
    IN  IF 2 * H.shares + asked = 0 THEN price * PartMicros
        ELSE RoundColumn(2 * H.shares * H.avg_cost + asked * price * PartMicros,
                         2 * H.shares + asked)

\* The BUY branch on the holdings table (views.py 363-382 and 735-752).
\* Hread is the row as the request read it before its first write, or
\* NoHolding when get_or_create found none then; in that case the INSERT
\* of get_or_create runs now and falls back to the row that is there.
BuyHolding(D, u, symbol, Hread, shares, half, price) ==
    LET row == IF Hread.exists THEN Hread ELSE D.holdings[u][symbol]
        asked == HalfUnits(shares, half)
    IN  IF row.exists
        THEN SaveHolding(D, u, symbol,
                 [row EXCEPT !.avg_cost = NewAvgCost(row, shares, half, price),
                             !.shares = RoundColumn(2 * row.shares + asked, 2)])
        ELSE [ok |-> TRUE,
              db |-> [D EXCEPT !.holdings[u][symbol] =
                                   [exists |-> TRUE, id |-> D.next_id,
                                    shares |-> RoundColumn(asked, 2),
                                    avg_cost |-> price * PartMicros],
                               !.next_id = @ + 1]]

\* The SELL branch on the holdings table (views.py 404-409 and 784-789).
SellHolding(D, u, symbol, H, shares, half) ==
    LET left == 2 * H.shares - HalfUnits(shares, half)
    IN  IF HoldingEmptied(left)
        THEN [ok |-> TRUE, db |-> DeleteHolding(D, u, symbol, H)]
        ELSE SaveHolding(D, u, symbol, [H EXCEPT !.shares = RoundColumn(left, 2)])

\* Mutant: the execution is not recorded.
CreateTrade_Unrecorded(D, u, symbol, trade_type, shares, price, total) == D

\* Trade.objects.create(...); the total column keeps whole cents.
CreateTrade(D, u, symbol, trade_type, shares, price, total) ==
    [D EXCEPT !.trades = Append(@,
        [user |-> u, symbol |-> symbol, trade_type |-> trade_type,
         shares |-> shares, price |-> price,
         total |-> RoundColumn(total, CentParts)])]

\* Mutant: the symbol-market check is applied to both sides.
ValidatedSide_Both(trade_type) == TRUE

\* "if trade_type == 'BUY'" around the symbol-market check (views.py 341).
ValidatedSide(trade_type) == trade_type = "BUY"

\* ------------------------------------------------- ExecuteTradeView.post
\* U is request.user as authentication loaded it; H is the holdings row
\* the SELL branch read (NoHolding if none).
\* The request asks for shares + e shares, where e = 0 unless dust, and
\* with dust 0 < e < ShareQuantum / 2 and e * price < half a cent: the
\* comparisons see e, the saved rows do not (their columns round it away).
\* With half the request asks for shares + 1/2 units, at a price of an even
\* number of parts of a cent: the shares columns of the holding and of
\* the trade round the half unit, each its own value.
ExecuteTrade(D, U, H, u, symbol, trade_type, shares, dust, half, price, gate_open) ==
    LET total == (HalfUnits(shares, half) * price) \div 2
        recorded == RoundColumn(HalfUnits(shares, half), 2)
        user_market == D.market[u]
    IN  IF symbol = "" \/ trade_type \notin {"BUY", "SELL"}
           \/ IsNotPositive(shares, dust \/ half) \/ price <= 0
        THEN Reject(D, 400, "Invalid trade parameters")
        ELSE IF ~MarketOpenNow(user_market, symbol, gate_open)
        THEN Reject(D, 400, "Market closed")
        ELSE IF ValidatedSide(trade_type) /\ ~SymbolValidNow(symbol, user_market)
        THEN Reject(D, 400, "Symbol not available in market")
        ELSE IF trade_type = "BUY"
        THEN IF InsufficientFunds(total, U) \/ (dust /\ total = U.buying_power)
             THEN Reject(D, 400, "Insufficient buying power")
             ELSE LET U1 == [U EXCEPT !.buying_power = @ - total]
                      D1 == SaveUser(D, u, U1)
                      B == BuyHolding(D1, u, symbol, D1.holdings[u][symbol], shares, half, price)
                      D2 == CreateTrade(B.db, u, symbol, "BUY", recorded, price, total)
                  IN  IF ~B.ok THEN Reject(D, 500, "IntegrityError")
                      ELSE Success(Gamify(D2, u, U1, "BUY", symbol, price), 201, -total)
        ELSE IF ~H.exists
             THEN Reject(D, 400, "No holdings")
             ELSE IF InsufficientShares(shares, H) \/ ((dust \/ half) /\ shares = H.shares)
             THEN Reject(D, 400, "Insufficient shares")
             ELSE LET U1 == [U EXCEPT !.buying_power = @ + total]
                      D1 == SaveUser(D, u, U1)
                      S == SellHolding(D1, u, symbol, H, shares, half)
                      D2 == CreateTrade(S.db, u, symbol, "SELL", recorded, price, total)
                  IN  IF ~S.ok THEN Reject(D, 500, "IntegrityError")
                      ELSE Success(Gamify(D2, u, U1, "SELL", symbol, price), 201, total)

\* ------------------------------------------------------------ limit orders
NoOrder == [user |-> "", symbol |-> "", trade_type |-> "", shares |-> 0,
            limit_price |-> 0, status |-> "NONE"]

\* Mutant: the lookup does not filter on status.
GetPendingOrder_AnyStatus(D, u, order_id) ==
    IF order_id \in 1..Len(D.orders) /\ D.orders[order_id].user = u
    THEN D.orders[order_id] ELSE NoOrder

\* LimitOrder.objects.get(id=order_id, user=user, status='PENDING'), or
\* NoOrder for DoesNotExist.
GetPendingOrder(D, u, order_id) ==
    IF /\ order_id \in 1..Len(D.orders)
       /\ D.orders[order_id].user = u
       /\ D.orders[order_id].status = "PENDING"
    THEN D.orders[order_id] ELSE NoOrder

\* order.save(): the instance overwrites the row with its primary key.
SaveOrder(D, order_id, O) == [D EXCEPT !.orders[order_id] = O]

\* LimitOrdersView.post
SubmitLimitOrder(D, U, u, symbol, trade_type, shares, limit_price) ==
    LET total == shares * limit_price
        created == [D EXCEPT !.orders = Append(@,
                        [user |-> u, symbol |-> symbol, trade_type |-> trade_type,
                         shares |-> shares, limit_price |-> limit_price,
                         status |-> "PENDING"])]
    IN  IF symbol = "" \/ trade_type \notin {"BUY", "SELL"} \/ shares <= 0 \/ limit_price <= 0
        THEN Reject(D, 400, "Invalid order parameters")
        ELSE IF trade_type = "BUY"
        THEN IF InsufficientFunds(total, U)
             THEN Reject(D, 400, "Insufficient buying power")
             ELSE LET U1 == [U EXCEPT !.buying_power = @ - total]
                      D1 == SaveUser(created, u, U1)
                  IN  Success(D1, 201, -total)
        ELSE IF ~D.holdings[u][symbol].exists
             THEN Reject(D, 400, "No holdings")
             ELSE IF InsufficientShares(shares, D.holdings[u][symbol])
             THEN Reject(D, 400, "Insufficient shares")
             ELSE Success(created, 201, 0)

\* Mutant: the refund is the shares, not shares * limit_price.
CancelRefund_SharesOnly(O) == IF O.trade_type = "BUY" THEN O.shares ELSE 0

\* "Refund buying power for BUY orders" (views.py 683-686).
CancelRefund(O) == IF O.trade_type = "BUY" THEN O.shares * O.limit_price ELSE 0

\* CancelLimitOrderView.delete; O is the order as the request read it.
CancelLimitOrder(D, U, O, u, order_id) ==
    IF O = NoOrder
    THEN Reject(D, 404, "Order not found or not pending")
    ELSE LET refund == CancelRefund(O)
             U1 == [U EXCEPT !.buying_power = @ + refund]
             D1 == IF O.trade_type = "BUY" THEN SaveUser(D, u, U1) ELSE D
             D2 == SaveOrder(D1, order_id, [O EXCEPT !.status = "CANCELLED"])
         IN  Success(D2, 200, refund)

\* Mutant: the price condition is not re-validated.
PriceConditionMet_Always(O, current_price) == TRUE

\* "Re-validate price condition" (views.py 719-729): the request goes on.
PriceConditionMet(O, current_price) ==
    /\ ~(O.trade_type = "BUY" /\ current_price > O.limit_price)
    /\ ~(O.trade_type = "SELL" /\ current_price < O.limit_price)

\* "Refund the difference if filled at a better price than reserved"
\* (views.py 754-759): the amount added to buying_power, 0 if none.
FillRefund(O, current_price) ==
    LET reserved == O.shares * O.limit_price
        actual == O.shares * current_price
    IN  IF actual < reserved THEN reserved - actual ELSE 0

\* Mutant: the fill executes at the limit price.
FillPrice_Limit(O, current_price) == O.limit_price

\* The price a BUY fill enters into the holding and the trade (views.py
\* 743, 749, 798).
FillPrice(O, current_price) == current_price

\* Mutant: the order is left as it is.
StatusOnMissingShares_Pending == "PENDING"

\* The status a SELL order gets when its fill finds the shares gone
\* (views.py 765, 773).
StatusOnMissingShares == "CANCELLED"

\* FillLimitOrderView.post; O is the order and H the holdings row as the
\* request read them before its first write.
FillLimitOrder(D, U, O, H, u, order_id, current_price) ==
    IF current_price <= 0
    THEN Reject(D, 400, "Invalid current price")
    ELSE IF O = NoOrder
    THEN Reject(D, 404, "Order not found or not pending")
    ELSE IF ~PriceConditionMet(O, current_price)
    THEN Reject(D, 400, IF O.trade_type = "BUY" THEN "Price condition not met for BUY"
                        ELSE "Price condition not met for SELL")
    ELSE
    LET price == FillPrice(O, current_price)
        total == O.shares * price
        filled == [O EXCEPT !.status = "FILLED"]
        cancelled == [O EXCEPT !.status = StatusOnMissingShares]
    IN  IF O.trade_type = "BUY"
        THEN LET B == BuyHolding(D, u, O.symbol, H, O.shares, FALSE, price)
                 refund == FillRefund(O, current_price)
                 U1 == [U EXCEPT !.buying_power = @ + refund]
                 D1 == IF refund > 0 THEN SaveUser(B.db, u, U1) ELSE B.db
                 D2 == CreateTrade(D1, u, O.symbol, "BUY", O.shares, price, total)
                 D3 == SaveOrder(D2, order_id, filled)
             IN  IF ~B.ok THEN Reject(D, 500, "IntegrityError")
                 ELSE Success(Gamify(D3, u, U1, "BUY", O.symbol, price), 201, refund)
        ELSE IF ~H.exists
             THEN Reject(SaveOrder(D, order_id, cancelled), 400, "No holdings")
             ELSE IF InsufficientShares(O.shares, H)
             THEN Reject(SaveOrder(D, order_id, cancelled), 400, "Insufficient shares")
             ELSE LET U1 == [U EXCEPT !.buying_power = @ + total]
                      D1 == SaveUser(D, u, U1)
                      S == SellHolding(D1, u, O.symbol, H, O.shares, FALSE)
                      D2 == CreateTrade(S.db, u, O.symbol, "SELL", O.shares, price, total)
                      D3 == SaveOrder(D2, order_id, filled)
                  IN  IF ~S.ok THEN Reject(D, 500, "IntegrityError")
                      ELSE Success(Gamify(D3, u, U1, "SELL", O.symbol, price), 201, total)

\* ------------------------------------------------- TransferFundsView.post
\* Friendship.objects.filter(Q(from_user=user, to_user=recipient) |
\* Q(from_user=recipient, to_user=user), status='accepted').exists()
AreFriends(a, b) ==
    \E f \in Friendship :
        /\ f.status = "accepted"
        /\ \/ f.from_user = a /\ f.to_user = b
           \/ f.from_user = b /\ f.to_user = a

\* CurrencyExchangeService.convert: amount / from_rate * to_rate, as the
\* exact quotient num / den (a Decimal of 28 digits); amount is returned
\* as it is when the currencies are the same.
convert(amount, from_currency, to_currency) ==
    IF from_currency = to_currency THEN [num |-> amount, den |-> 1]
    ELSE [num |-> amount * Rates[to_currency], den |-> Rates[from_currency]]

\* convert reads the rates, and can raise, only when the currencies differ
\* (currency_service.py 146-149); ok says whether its reads and its
\* division return.
ConvertRaises(ok, from_currency, to_currency) == ~ok /\ from_currency # to_currency

\* A quotient of parts of a cent as a 2-decimal column stores it, in cents.
StoreCents(q) == RoundColumn(q.num, q.den * CentParts)

\* amount is in parts of a cent.  R is the recipient's UserProfile as the
\* request read it; rate_ok and usd_ok say whether the two convert calls
\* return (they raise otherwise).
TransferFunds(D, U, R, u, to_username, amount, rate_ok, usd_ok) ==
    IF amount <= 0 THEN Reject(D, 400, "Amount must be positive")
    ELSE IF to_username = "" THEN Reject(D, 400, "Recipient username is required")
    ELSE IF u = to_username THEN Reject(D, 400, "Cannot transfer funds to yourself")
    ELSE IF to_username \notin Users THEN Reject(D, 404, "User not found")
    ELSE IF ~AreFriends(u, to_username) THEN Reject(D, 403, "Not accepted friends")
    ELSE IF InsufficientFunds(amount, U)
    THEN Reject(D, 400, "Insufficient buying power")
    ELSE IF ConvertRaises(rate_ok, SettingsCurrency[u], SettingsCurrency[to_username])
    THEN Reject(D, 500, "Currency conversion failed")
    ELSE
    LET sender_currency == SettingsCurrency[u]
        recipient_currency == SettingsCurrency[to_username]
        recipient_amount == convert(amount, sender_currency, recipient_currency)
        U1 == [U EXCEPT !.buying_power = @ - amount]
        D1 == SaveUser(D, u, U1)
        credited == StoreCents([num |-> R.buying_power * recipient_amount.den
                                          + recipient_amount.num,
                                den |-> recipient_amount.den])
        R1 == [R EXCEPT !.buying_power = credited * CentParts]
        D2 == SaveUser(D1, to_username, R1)
        usd_amount == IF ConvertRaises(usd_ok, sender_currency, "USD")
                      THEN [num |-> amount, den |-> 1]
                      ELSE convert(amount, sender_currency, "USD")
        D3 == [D2 EXCEPT !.transfers = Append(@,
                  [from_user |-> u, to_user |-> to_username,
                   amount |-> StoreCents(usd_amount),
                   display_amount |-> RoundColumn(amount, CentParts),
                   recipient_display_amount |-> StoreCents(recipient_amount)])]
    IN  [db |-> D3, status |-> 200, error |-> "", cash |-> -amount,
         to |-> to_username,
         credit |-> credited * CentParts - R.buying_power]

\* UpdateMarketView.post
UpdateMarket(D, u, mkt) ==
    IF mkt \notin Markets THEN Reject(D, 400, "Invalid market")
    ELSE Success([D EXCEPT !.market[u] = mkt], 200, 0)

\* --------------------------------------------------- ResetAccountView.post
\* cooled says whether RESET_COOLDOWN_DAYS have passed since last_reset_at.
\* A deleted limit order leaves its primary key unused: its place in the
\* table holds NoOrder.
ResetAccount(D, U, u, cooled) ==
    IF U.last_reset_at /\ ~cooled
    THEN Reject(D, 429, "Account can only be reset once every 30 days")
    ELSE LET D1 == [D EXCEPT
                      !.trades = SelectSeq(@, LAMBDA t : t.user # u),
                      !.holdings[u] = [s \in Symbols |-> NoHolding],
                      !.watchlist[u] = {},
                      !.orders = [i \in DOMAIN @ |-> IF @[i].user = u THEN NoOrder ELSE @[i]],
                      !.unlocked = SelectSeq(@, LAMBDA row : row.user # u)]
             U1 == [U EXCEPT !.buying_power = U.initial_balance * CentParts,
                             !.xp = 0, !.rank = "Retail Trader", !.level = 1,
                             !.last_reset_at = TRUE]
         IN  Success(SaveUser(D1, u, U1), 200, U1.buying_power - U.buying_power)

\* ---------------------------------------------------------------- requests
SymbolInputs == Listed \cup {""}
TypeInputs == {"BUY", "SELL", "HOLD"}
ShareInputs == 0..MaxShares
PriceInputs == 0..MaxPrice
AmountInputs == 0..(MaxAmount * CentParts)

\* Requests the model sends: every well-formed one, and for each parameter
\* check one malformed probe (the other parameters at a fixed valid value).
\* Orders in the US stock come in every size and price, orders in the
\* crypto symbol as one share at one cent.
WellFormed(symbol, trade_type, shares, price) ==
    /\ symbol \in Listed /\ ~IsIndianSymbol(symbol)
    /\ ContainsUsd(symbol) => shares = 1 /\ price = CentParts
    /\ trade_type \in {"BUY", "SELL"} /\ shares > 0
    /\ price > 0 /\ price % CentParts = 0
\* An order of one share at a price of one part of a cent.
SubCentProbe(symbol, trade_type, shares, price) ==
    symbol = "AAPL" /\ trade_type \in {"BUY", "SELL"} /\ shares = 1 /\ price = 1
\* A market order for a positive amount below half the shares quantum.
DustProbe(symbol, trade_type, shares, price) ==
    symbol = "AAPL" /\ trade_type \in {"BUY", "SELL"} /\ shares = 0 /\ price = CentParts
Probe(symbol, trade_type, shares, price) ==
    \/ symbol = "" /\ trade_type = "BUY" /\ shares = 1 /\ price = CentParts
    \/ symbol = "AAPL" /\ trade_type = "HOLD" /\ shares = 1 /\ price = CentParts
    \/ symbol = "AAPL" /\ trade_type = "BUY" /\ shares = 0 /\ price = CentParts
    \/ symbol = "AAPL" /\ trade_type = "SELL" /\ shares = 1 /\ price = 0
    \/ symbol = "TCS.NS" /\ trade_type = "BUY" /\ shares = 1 /\ price = CentParts
    \/ SubCentProbe(symbol, trade_type, shares, price)
Sent(symbol, trade_type, shares, price) ==
    WellFormed(symbol, trade_type, shares, price) \/ Probe(symbol, trade_type, shares, price)
OrderIdInputs == 1..MaxOrders

NoReq == [op |-> "none", user |-> "", symbol |-> "", trade_type |-> "", shares |-> 0,
          dust |-> FALSE, half |-> FALSE, price |-> 0, order_id |-> 0, to_username |-> "", amount |-> 0,
          gate_open |-> FALSE, rate_ok |-> FALSE, usd_ok |-> FALSE, mkt |-> "",
          cooled |-> FALSE]

TradeReq(u, symbol, trade_type, shares, dust, price, gate_open) ==
    [NoReq EXCEPT !.op = "trade", !.user = u, !.symbol = symbol,
                  !.trade_type = trade_type, !.shares = shares, !.dust = dust,
                  !.price = price,
                  !.gate_open = gate_open]
SubmitReq(u, symbol, trade_type, shares, limit_price) ==
    [NoReq EXCEPT !.op = "submit", !.user = u, !.symbol = symbol,
                  !.trade_type = trade_type, !.shares = shares, !.price = limit_price]
CancelReq(u, order_id) ==
    [NoReq EXCEPT !.op = "cancel", !.user = u, !.order_id = order_id]
FillReq(u, order_id, current_price) ==
    [NoReq EXCEPT !.op = "fill", !.user = u, !.order_id = order_id, !.price = current_price]
TransferReq(u, to_username, amount, rate_ok, usd_ok) ==
    [NoReq EXCEPT !.op = "transfer", !.user = u, !.to_username = to_username,
                  !.amount = amount, !.rate_ok = rate_ok, !.usd_ok = usd_ok]
MarketReq(u, mkt) ==
    [NoReq EXCEPT !.op = "market", !.user = u, !.mkt = mkt]
\* A market order for shares + 1/2 units of the shares column.
HalfUnitReq(u, symbol, trade_type, shares, price) ==
    [TradeReq(u, symbol, trade_type, shares, FALSE, price, TRUE) EXCEPT !.half = TRUE]
ResetReq(u, cooled) ==
    [NoReq EXCEPT !.op = "reset", !.user = u, !.cooled = cooled]
WatchReq(u, symbol) ==
    [NoReq EXCEPT !.op = "watch", !.user = u, !.symbol = symbol]

NoUser == [buying_power |-> 0, xp |-> 0, level |-> 0, rank |-> "",
           initial_balance |-> 0, last_reset_at |-> FALSE]
IdleProc == [pc |-> "idle", req |-> NoReq,
             U |-> NoUser, R |-> NoUser,
             O |-> NoOrder, H |-> NoHolding, newly |-> {}]

\* The rows a request reads before its first write, as a process record.
HoldingRow(D, u, symbol) ==
    IF u \in Users /\ symbol \in Symbols THEN D.holdings[u][symbol] ELSE NoHolding

ReadSnapshot(D, pr) ==
    LET req == pr.req
        O == IF req.op \in {"cancel", "fill"}
             THEN GetPendingOrder(D, req.user, req.order_id) ELSE NoOrder
        H == IF req.op = "trade" THEN HoldingRow(D, req.user, req.symbol)
             ELSE IF req.op = "fill" THEN HoldingRow(D, req.user, O.symbol)
             ELSE NoHolding
        R == IF req.op = "transfer" /\ req.to_username \in Users
             THEN LoadUser(D, req.to_username) ELSE IdleProc.R
    IN  [pr EXCEPT !.O = O, !.H = H, !.R = R]

\* The handler of a request, run on database D with the in-memory rows of pr.
Handle(D, pr) ==
    LET req == pr.req
    IN  CASE req.op = "trade" ->
                ExecuteTrade(D, pr.U, pr.H, req.user, req.symbol, req.trade_type,
                             req.shares, req.dust, req.half, req.price, req.gate_open)
          [] req.op = "submit" ->
                SubmitLimitOrder(D, pr.U, req.user, req.symbol, req.trade_type,
                                 req.shares, req.price)
          [] req.op = "cancel" ->
                CancelLimitOrder(D, pr.U, pr.O, req.user, req.order_id)
          [] req.op = "fill" ->
                FillLimitOrder(D, pr.U, pr.O, pr.H, req.user, req.order_id, req.price)
          [] req.op = "transfer" ->
                TransferFunds(D, pr.U, pr.R, req.user, req.to_username, req.amount,
                              req.rate_ok, req.usd_ok)
          [] req.op = "market" -> UpdateMarket(D, req.user, req.mkt)
          [] req.op = "reset" -> ResetAccount(D, pr.U, req.user, req.cooled)

\* A request served with nothing else running: authentication, the reads
\* and the writes see the same database.
Serve(D, req) ==
    Handle(D, ReadSnapshot(D, [IdleProc EXCEPT !.req = req, !.U = LoadUser(D, req.user)]))

\* The transaction commits the rows of r and the response is sent.
CommitRows(req, r) ==
    /\ buying_power' = r.db.buying_power
    /\ xp' = r.db.xp
    /\ level' = r.db.level
    /\ rank' = r.db.rank
    /\ market' = r.db.market
    /\ holdings' = r.db.holdings
    /\ next_id' = r.db.next_id
    /\ trades' = r.db.trades
    /\ orders' = r.db.orders
    /\ unlocked' = r.db.unlocked
    /\ transfers' = r.db.transfers
    /\ last' = IF r.db = DB THEN last
               ELSE [req |-> req, status |-> r.status, error |-> r.error]
    /\ cash_effect' =
          IF r.status >= 400 THEN cash_effect
          ELSE IF r.to = "" THEN [cash_effect EXCEPT ![req.user] = @ + r.cash]
          ELSE [cash_effect EXCEPT ![req.user] = @ + r.cash, ![r.to] = @ + r.credit]
    /\ watchlist' = r.db.watchlist
    /\ initial_balance' = r.db.initial_balance
    /\ last_reset_at' = r.db.last_reset_at
    /\ milestones' =
          IF r.status = 201 /\ req.op \in {"trade", "fill"}
             /\ MilestoneBonus(r.db, req.user) > 0
          THEN [milestones EXCEPT ![req.user] = Append(@, MilestoneBonus(r.db, req.user))]
          ELSE IF r.status = 200 /\ req.op = "reset"
          THEN [milestones EXCEPT ![req.user] = << >>]
          ELSE milestones
    /\ UNCHANGED << gate, validation >>

\* The response is sent and the transaction commits.
Respond(req, r) == CommitRows(req, r) /\ UNCHANGED tx

\* ------------------------------------------------------------------- Init
NoResult == [raised |-> FALSE, is_open |-> FALSE, source |-> "", market_name |-> ""]
NoGateCall == [mkt |-> "", symbol |-> "", now |-> NoNow, status |-> "none",
               clock |-> NoNow, called |-> FALSE, result |-> NoResult]

InitDatabaseWith(balance) ==
    /\ buying_power = [u \in Users |-> balance]
    /\ initial_balance = [u \in Users |-> balance]
    /\ last_reset_at = [u \in Users |-> FALSE]
    /\ milestones = [u \in Users |-> << >>]
    /\ xp = [u \in Users |-> 0]
    /\ level = [u \in Users |-> 1]
    /\ rank = [u \in Users |-> "Retail Trader"]
    /\ market = [u \in Users |-> "US"]
    /\ holdings = [u \in Users |-> [s \in Symbols |-> NoHolding]]
    /\ next_id = 1
    /\ trades = << >>
    /\ orders = << >>
    /\ unlocked = << >>
    /\ transfers = << >>
    /\ last = [req |-> NoReq, status |-> 0, error |-> ""]
    /\ procs = [p \in Procs |-> IdleProc]
    /\ cash_effect = [u \in Users |-> 0]
    /\ watchlist = [u \in Users |-> {}]

InitDatabase == InitDatabaseWith(InitialBalance)

NoValidation == [symbol |-> << >>, mkt |-> "", called |-> FALSE,
                 result |-> [valid |-> FALSE, message |-> << >>]]
NoTx == [req |-> NoReq, pc |-> "idle", in_atomic |-> FALSE, mutated |-> FALSE,
         log |-> << >>]

Init == InitDatabase /\ gate = NoGateCall /\ validation = NoValidation /\ tx = NoTx

TransferSent(u, to_username, amount, rate_ok, usd_ok) ==
    \/ to_username \in Peers \ {u} /\ amount > 0 /\ (usd_ok => rate_ok)
    \/ to_username \in Peers \ {u} /\ amount = 0 /\ rate_ok /\ usd_ok
    \/ to_username \in {u, "", "nobody"} /\ amount = CentParts /\ rate_ok /\ usd_ok

\* The tables stay within the bounds of the model: a request is sent only
\* if serving it does not outgrow them.
WithinBounds(D) ==
    /\ Len(D.trades) <= MaxTrades
    /\ Len(D.orders) <= MaxOrders
    /\ Len(D.transfers) <= MaxTransfers

\* ------------------------------------- requests applied one at a time
\* The requests of each kind that the model sends.
TradeRequests ==
    { req \in { TradeReq(u, symbol, trade_type, shares, dust, price, gate_open) :
                  u \in Traders, symbol \in SymbolInputs, trade_type \in TypeInputs,
                  shares \in ShareInputs, dust \in BOOLEAN, price \in PriceInputs,
                  gate_open \in BOOLEAN } :
        /\ IF req.dust
           THEN DustProbe(req.symbol, req.trade_type, req.shares, req.price)
                /\ req.gate_open
           ELSE Sent(req.symbol, req.trade_type, req.shares, req.price)
        /\ (ContainsUsd(req.symbol) => req.gate_open) }

SubmitRequests ==
    { req \in { SubmitReq(u, symbol, trade_type, shares, limit_price) :
                  u \in Traders, symbol \in SymbolInputs, trade_type \in TypeInputs,
                  shares \in ShareInputs, limit_price \in PriceInputs } :
        /\ Sent(req.symbol, req.trade_type, req.shares, req.price)
        /\ req.symbol # "TCS.NS" }

CancelRequests == { CancelReq(u, order_id) : u \in Traders, order_id \in OrderIdInputs }

FillRequests ==
    { req \in { FillReq(u, order_id, current_price) :
                  u \in Traders, order_id \in OrderIdInputs,
                  current_price \in PriceInputs } :
        req.price % CentParts = 0 \/ req.price = 1 }

TransferRequests ==
    { req \in { TransferReq(u, to_username, amount, rate_ok, usd_ok) :
                  u \in Peers, to_username \in Peers \cup {"", "nobody"},
                  amount \in AmountInputs, rate_ok \in BOOLEAN, usd_ok \in BOOLEAN } :
        /\ req.amount % CentParts = 0
        /\ TransferSent(req.user, req.to_username, req.amount, req.rate_ok, req.usd_ok) }

MarketRequests == { MarketReq(u, mkt) : u \in Traders, mkt \in Markets \cup {"UK"} }

\* Each action: a request is served and its transaction commits.
ExecuteTradeRequest ==
    \E req \in TradeRequests :
        /\ \E r \in {Serve(DB, req)} : WithinBounds(r.db) /\ Respond(req, r)
        /\ UNCHANGED procs

SubmitLimitOrderRequest ==
    \E req \in SubmitRequests :
        /\ \E r \in {Serve(DB, req)} : WithinBounds(r.db) /\ Respond(req, r)
        /\ UNCHANGED procs

CancelLimitOrderRequest ==
    \E req \in CancelRequests :
        /\ \E r \in {Serve(DB, req)} : WithinBounds(r.db) /\ Respond(req, r)
        /\ UNCHANGED procs

FillLimitOrderRequest ==
    \E req \in FillRequests :
        /\ \E r \in {Serve(DB, req)} : WithinBounds(r.db) /\ Respond(req, r)
        /\ UNCHANGED procs

TransferFundsRequest ==
    \E req \in TransferRequests :
        /\ \E r \in {Serve(DB, req)} : WithinBounds(r.db) /\ Respond(req, r)
        /\ UNCHANGED procs

UpdateMarketRequest ==
    \E req \in MarketRequests :
        /\ \E r \in {Serve(DB, req)} : WithinBounds(r.db) /\ Respond(req, r)
        /\ UNCHANGED procs

Next ==
    \/ ExecuteTradeRequest
    \/ SubmitLimitOrderRequest
    \/ CancelLimitOrderRequest
    \/ FillLimitOrderRequest
    \/ TransferFundsRequest

Spec == Init /\ [][Next]_vars

\* ------------------------------------------- trading across the markets
\* One share at one cent of a US, an Indian and a crypto symbol, by market
\* order or by limit order, while the user switches market; gate_open is
\* what the market gate would answer for the user's market at the time of
\* the request, whether or not the handler asks.
MarketTradeRequests ==
    { req \in { TradeReq(u, symbol, trade_type, 1, FALSE, CentParts, gate_open) :
                  u \in Traders, symbol \in Listed, trade_type \in {"BUY", "SELL"},
                  gate_open \in BOOLEAN } :
        ContainsUsd(req.symbol) => req.gate_open }

MarketSubmitRequests ==
    { SubmitReq(u, symbol, trade_type, 1, CentParts) :
        u \in Traders, symbol \in Listed, trade_type \in {"BUY", "SELL"} }

MarketFillRequests ==
    { [FillReq(u, order_id, CentParts) EXCEPT !.gate_open = gate_open] :
        u \in Traders, order_id \in OrderIdInputs, gate_open \in BOOLEAN }

TradeOnMarket ==
    \E req \in MarketTradeRequests :
        /\ \E r \in {Serve(DB, req)} : WithinBounds(r.db) /\ Respond(req, r)
        /\ UNCHANGED procs

SubmitOnMarket ==
    \E req \in MarketSubmitRequests :
        /\ \E r \in {Serve(DB, req)} : WithinBounds(r.db) /\ Respond(req, r)
        /\ UNCHANGED procs

FillOnMarket ==
    \E req \in MarketFillRequests :
        /\ \E r \in {Serve(DB, req)} : WithinBounds(r.db) /\ Respond(req, r)
        /\ UNCHANGED procs

NextMarket ==
    \/ TradeOnMarket
    \/ SubmitOnMarket
    \/ FillOnMarket
    \/ UpdateMarketRequest

SpecMarket == Init /\ [][NextMarket]_vars

\* --------------------------------------------------- calls of the gate
\* Wall-clock minutes around the opening and closing times, as the
\* markets' zones and as UTC show them.
SampleMinutes ==
    { 0, 60, 3 * 60 + 44, 3 * 60 + 45, 9 * 60 + 14, 9 * 60 + 15, 9 * 60 + 29, 9 * 60 + 30,
      9 * 60 + 59, 10 * 60, 13 * 60 + 29, 13 * 60 + 30, 14 * 60 + 29, 14 * 60 + 30,
      15 * 60 + 29, 15 * 60 + 30, 15 * 60 + 59, 16 * 60, 19 * 60 + 59, 20 * 60,
      20 * 60 + 59, 21 * 60, 23 * 60 + 59 }

\* Naive datetimes (taken as UTC) and aware ones in India's zone.
Instants ==
    { Datetime(weekday, minute, aware, IF aware THEN 5 * 60 + 30 ELSE 0, dst) :
        weekday \in 0..6, minute \in SampleMinutes, aware \in BOOLEAN, dst \in BOOLEAN }

\* A Wednesday at 15:00 UTC, a trading hour in New York.
MarketHour == Datetime(2, 15 * 60, FALSE, 0, FALSE)

OracleOutcomes == {"open", "closed", "none", "raises"}

\* The calls: now is left out and the clock shows any instant, or now is
\* any instant and the clock shows a trading hour.
GateCalls ==
    { [NoGateCall EXCEPT !.mkt = mkt, !.symbol = symbol, !.now = t[1], !.status = status,
                         !.clock = t[2]] :
        mkt \in Markets \cup {"UK"}, symbol \in {"AAPL", "BTC-USD"},
        status \in OracleOutcomes,
        t \in ({NoNow} \X Instants) \cup (Instants \X {MarketHour}) }

InitGate == InitDatabase /\ gate \in GateCalls /\ validation = NoValidation /\ tx = NoTx

CallGate ==
    /\ ~gate.called
    /\ gate' = [gate EXCEPT !.called = TRUE,
                            !.result = is_market_open(gate.mkt, gate.symbol, gate.now,
                                                      gate.status, gate.clock)]
    /\ UNCHANGED << buying_power, initial_balance, last_reset_at, milestones,
                    xp, level, rank, market, holdings, next_id,
                    trades, orders, unlocked, transfers, last, procs, cash_effect,
                    watchlist, validation, tx >>

NextGate == CallGate

SpecGate == InitGate /\ [][NextGate]_vars

\* ----------------------------------------------- calls of the validator
\* The symbols a request can carry: up to three pieces, among them the
\* three strings the validator looks for, in either case, whole and cut
\* short.
SymbolPieces ==
    { << >>, << "A" >>, << "a" >>, << "D" >>,
      << "-", "U", "S", "D" >>, << "-", "u", "s", "d" >>, << "-", "U", "S" >>,
      << ".", "N", "S" >>, << ".", "n", "s" >>, << ".", "N" >>,
      << ".", "B", "O" >>, << ".", "b", "o" >> }
RawSymbols == { p \o q \o r : p \in SymbolPieces, q \in SymbolPieces, r \in SymbolPieces }

\* The calls: the symbol as ExecuteTradeView.post passes it, upper-cased
\* (views.py 318) and not empty (views.py 325), and the user's market,
\* any string.
ValidatorCalls ==
    { [NoValidation EXCEPT !.symbol = upper(raw), !.mkt = mkt] :
        raw \in RawSymbols \ {<< >>}, mkt \in Markets \cup {"UK", "in", ""} }

InitValidator ==
    InitDatabase /\ gate = NoGateCall /\ validation \in ValidatorCalls /\ tx = NoTx

CallValidator ==
    /\ ~validation.called
    /\ validation' = [validation EXCEPT
                         !.called = TRUE,
                         !.result = is_symbol_valid_for_market(validation.symbol,
                                                               validation.mkt)]
    /\ UNCHANGED << buying_power, initial_balance, last_reset_at, milestones,
                    xp, level, rank, market, holdings, next_id,
                    trades, orders, unlocked, transfers, last, procs, cash_effect,
                    gate, watchlist, tx >>

NextValidator == CallValidator

SpecValidator == InitValidator /\ [][NextValidator]_vars

\* ------------------------------------------------ transfers among friends
\* Transfers between any two users, of whole cents and of amounts between
\* cents, with each convert call returning or raising.
FriendTransferRequests ==
    { TransferReq(u, to_username, amount, rate_ok, usd_ok) :
        u \in Users, to_username \in Users \cup {"", "nobody"},
        amount \in AmountInputs, rate_ok \in BOOLEAN, usd_ok \in BOOLEAN }

TransferBetweenFriends ==
    \E req \in FriendTransferRequests :
        /\ LET r == Serve(DB, req)
           IN  Len(r.db.transfers) <= MaxFriendTransfers /\ Respond(req, r)
        /\ UNCHANGED procs

NextTransfer == TransferBetweenFriends

SpecTransfer == Init /\ [][NextTransfer]_vars

\* ------------------------------------------ requests running concurrently
\* A request runs in three steps.  Authenticate: DRF authentication loads
\* request.user (CookieJWTAuthentication.get_user) before the view and its
\* transaction start.  ReadRows: the view reads the rows it reads before
\* its first write; no lock is taken (no select_for_update anywhere).
\* Commit: from its first write on the transaction holds row locks, so
\* its writes and its commit are one step; it writes the instances it
\* holds in memory.  The database is PostgreSQL at READ COMMITTED.
InFlight(ops) == Cardinality({ p \in Procs : procs[p].pc # "idle" /\ procs[p].req.op \in ops })

\* Only well-formed requests, with the gate open, are sent concurrently.
ConcurrentRequests ==
    { TradeReq(u, symbol, trade_type, MaxShares, FALSE, MaxPrice, TRUE) :
        u \in Traders, symbol \in {"AAPL"}, trade_type \in {"BUY", "SELL"} }
    \cup { SubmitReq(u, symbol, trade_type, MaxShares, MaxPrice) :
        u \in Traders, symbol \in {"AAPL"}, trade_type \in {"BUY", "SELL"} }
    \cup { CancelReq(u, order_id) : u \in Traders, order_id \in OrderIdInputs }
    \cup { FillReq(u, order_id, MaxPrice) : u \in Traders, order_id \in OrderIdInputs }
    \cup { TransferReq(u, to_username, amount, TRUE, TRUE) :
        u \in Peers, to_username \in Peers, amount \in {MaxAmount * CentParts} }

\* Worker processes are interchangeable: a request is taken by the first
\* idle one.
FirstIdle(p) == \A q \in Procs : procs[q].pc = "idle" => (p = "p1" \/ q # "p1")

NeedsRead(req) ==
    \/ req.op \in {"cancel", "fill", "transfer"}
    \/ req.op = "trade" /\ req.trade_type = "SELL"

Authenticate(p) ==
    \E req \in ConcurrentRequests :
        /\ procs[p].pc = "idle"
        /\ FirstIdle(p)
        /\ req.op \in {"trade", "fill"} =>
              Len(trades) + InFlight({"trade", "fill"}) < MaxConcTrades
        /\ req.op = "submit" => Len(orders) + InFlight({"submit"}) < MaxOrders
        /\ req.op = "transfer" =>
              /\ Len(transfers) + InFlight({"transfer"}) < MaxTransfers
              /\ req.user # req.to_username
        /\ procs' = [procs EXCEPT ![p] =
              [IdleProc EXCEPT !.pc = IF NeedsRead(req) THEN "authenticated" ELSE "read",
                               !.req = req, !.U = LoadUser(DB, req.user)]]
        /\ UNCHANGED << buying_power, initial_balance, last_reset_at, milestones,
                        xp, level, rank, market, holdings, next_id,
                        trades, orders, unlocked, transfers, last, cash_effect, gate,
                        watchlist, validation, tx >>

ReadRows(p) ==
    /\ procs[p].pc = "authenticated"
    /\ procs' = [procs EXCEPT ![p] = [ReadSnapshot(DB, procs[p]) EXCEPT !.pc = "read"]]
    /\ UNCHANGED << buying_power, initial_balance, last_reset_at, milestones,
                    xp, level, rank, market, holdings, next_id,
                    trades, orders, unlocked, transfers, last, cash_effect, gate,
                        watchlist, validation, tx >>

Commit(p) ==
    /\ procs[p].pc = "read"
    /\ Respond(procs[p].req, Handle(DB, procs[p]))
    /\ procs' = [procs EXCEPT ![p] = IdleProc]

NextConc == \E p \in Procs : Authenticate(p) \/ ReadRows(p) \/ Commit(p)

SpecConc == Init /\ [][NextConc]_vars

\* ------------------------------------------------ building a portfolio
\* An account with a larger balance buys one share at one cent of one
\* symbol after the other by market order, the fifth and the tenth
\* symbol also by a limit order that it has filled before it sends
\* anything else, buys a second share of the symbol it took up last, sells
\* a share of it, and resets the account; all requests of a behaviour fall
\* within the reset cooldown.
PortfolioBalance == 12
MaxPortfolioTrades == 10
MaxHoldingRows == 12

InitPortfolio ==
    /\ InitDatabaseWith(PortfolioBalance)
    /\ gate = NoGateCall /\ validation = NoValidation /\ tx = NoTx

PortfolioBounds(D) ==
    /\ Len(D.trades) <= MaxPortfolioTrades
    /\ D.next_id <= MaxHoldingRows + 1
    /\ Len(D.orders) <= MaxOrders

Pending(u) == { i \in 1..Len(orders) : orders[i].user = u /\ orders[i].status = "PENDING" }

PortfolioOrders(u) ==
    LET held == HoldingsCount(DB, u)
    IN  { TradeReq(u, SymbolOrder[k], "BUY", 1, FALSE, CentParts, TRUE) :
            k \in { held, held + 1 } \cap (1..Len(SymbolOrder)) }
        \cup { TradeReq(u, SymbolOrder[k], "SELL", 1, FALSE, CentParts, TRUE) :
                 k \in { held } \cap (1..Len(SymbolOrder)) }

TradeInPortfolio ==
    \E u \in Traders : \E req \in PortfolioOrders(u) :
        /\ Pending(u) = {}
        /\ req.trade_type = "BUY" => holdings[u][req.symbol].shares < MaxShares
        /\ \E r \in {Serve(DB, req)} : PortfolioBounds(r.db) /\ Respond(req, r)
        /\ UNCHANGED procs

\* A limit order for a share of the next symbol, at one cent.
SubmitInPortfolio ==
    \E u \in Traders :
        /\ Pending(u) = {}
        /\ HoldingsCount(DB, u) + 1 \in {5, 10}
        /\ \E req \in { SubmitReq(u, SymbolOrder[HoldingsCount(DB, u) + 1], "BUY", 1, CentParts) } :
              \E r \in {Serve(DB, req)} : PortfolioBounds(r.db) /\ Respond(req, r)
        /\ UNCHANGED procs

FillInPortfolio ==
    \E u \in Traders : \E order_id \in Pending(u) :
        /\ \E req \in { FillReq(u, order_id, CentParts) } :
              \E r \in {Serve(DB, req)} : PortfolioBounds(r.db) /\ Respond(req, r)
        /\ UNCHANGED procs

ResetAccountRequest ==
    \E req \in { ResetReq(u, FALSE) : u \in Traders } :
        /\ \E r \in {Serve(DB, req)} : Respond(req, r)
        /\ UNCHANGED procs

NextPortfolio ==
    \/ TradeInPortfolio
    \/ SubmitInPortfolio
    \/ FillInPortfolio
    \/ ResetAccountRequest

SpecPortfolio == InitPortfolio /\ [][NextPortfolio]_vars

\* --------------------------------------------- the achievement check
\* WatchlistView runs outside a transaction, every statement committing
\* on its own, so two requests for one account interleave statement by
\* statement: the insert into the watchlist, the queries of
\* check_achievements, its bulk_create.  Symbols join the watchlist in the
\* order of SymbolOrder, and the last one leaves.
MaxWatch == 11

NextWatched(u) == SymbolOrder[Cardinality(watchlist[u]) + 1]
LastWatched(u) == SymbolOrder[Cardinality(watchlist[u])]

\* WatchlistView.post up to the call of check_achievements (views.py
\* 468-485): get_or_create inserts the row, or the request ends with 400.
WatchlistAdd(p) ==
    \E u \in Traders :
        /\ procs[p].pc = "idle"
        /\ Cardinality(watchlist[u]) < MaxWatch
        /\ Cardinality(watchlist[u]) < Len(SymbolOrder)
        /\ watchlist' = [watchlist EXCEPT ![u] = @ \cup {NextWatched(u)}]
        /\ procs' = [procs EXCEPT ![p] =
              [IdleProc EXCEPT !.pc = "check", !.req = WatchReq(u, NextWatched(u))]]
        /\ UNCHANGED << buying_power, initial_balance, last_reset_at, milestones,
                        xp, level, rank, market, holdings, next_id,
                        trades, orders, unlocked, transfers, last, cash_effect,
                        gate, validation, tx >>

\* WatchlistView.delete (views.py 498-507).
WatchlistRemove ==
    \E u \in Traders :
        /\ watchlist[u] # {}
        /\ watchlist' = [watchlist EXCEPT ![u] = @ \ {LastWatched(u)}]
        /\ UNCHANGED << buying_power, initial_balance, last_reset_at, milestones,
                        xp, level, rank, market, holdings, next_id,
                        trades, orders, unlocked, transfers, last, procs, cash_effect,
                        gate, validation, tx >>

\* check_achievements, lines 18-56: the queries.  With nothing newly
\* earned the call returns [] and the request ends.
AchievementsRead(p) ==
    /\ procs[p].pc = "check"
    /\ LET newly == NewlyEarned(DB, procs[p].req.user)
       IN  procs' = [procs EXCEPT ![p] =
                        IF newly = {} THEN IdleProc
                        ELSE [@ EXCEPT !.pc = "insert", !.newly = newly]]
    /\ UNCHANGED << buying_power, initial_balance, last_reset_at, milestones,
                    xp, level, rank, market, holdings, next_id,
                    trades, orders, unlocked, transfers, last, cash_effect,
                    gate, watchlist, validation, tx >>

\* check_achievements, lines 59-65: bulk_create, and the list is returned.
AchievementsInsert(p) ==
    /\ procs[p].pc = "insert"
    /\ unlocked' = bulk_create(DB, procs[p].req.user, procs[p].newly).unlocked
    /\ procs' = [procs EXCEPT ![p] = IdleProc]
    /\ UNCHANGED << buying_power, initial_balance, last_reset_at, milestones,
                    xp, level, rank, market, holdings, next_id,
                    trades, orders, transfers, last, cash_effect,
                    gate, watchlist, validation, tx >>

\* Market orders that commit meanwhile: one share of the US stock at one
\* cent, bought or sold.
TradeMeanwhile ==
    \E req \in { TradeReq(u, "AAPL", trade_type, 1, FALSE, CentParts, TRUE) :
                    u \in Traders, trade_type \in {"BUY", "SELL"} } :
        /\ \E r \in {Serve(DB, req)} : WithinBounds(r.db) /\ Respond(req, r)
        /\ UNCHANGED procs

NextAchievements ==
    \/ \E p \in Procs : WatchlistAdd(p) \/ AchievementsRead(p) \/ AchievementsInsert(p)
    \/ WatchlistRemove
    \/ TradeMeanwhile

SpecAchievements == Init /\ [][NextAchievements]_vars

\* ------------------------------------------ a position bought and sold
\* One account trades one symbol at one or two cents a share, by market
\* order and by a SELL limit order that is then filled: positions are
\* built up, sold in part, closed and reopened.
MaxProfitTrades == 4

ProfitPrices == { CentParts, 2 * CentParts }

ProfitBounds(D) ==
    /\ Len(D.trades) <= MaxProfitTrades
    /\ Len(D.orders) <= MaxOrders

ProfitOrders ==
    { TradeReq(u, "AAPL", trade_type, shares, FALSE, price, TRUE) :
        u \in Traders, trade_type \in {"BUY", "SELL"},
        shares \in 1..MaxShares, price \in ProfitPrices }

TradeForProfit ==
    \E req \in ProfitOrders :
        /\ \E r \in {Serve(DB, req)} : ProfitBounds(r.db) /\ Respond(req, r)
        /\ UNCHANGED procs

SubmitForProfit ==
    \E req \in { SubmitReq(u, "AAPL", "SELL", 1, CentParts) : u \in Traders } :
        /\ \E r \in {Serve(DB, req)} : ProfitBounds(r.db) /\ Respond(req, r)
        /\ UNCHANGED procs

ProfitFills ==
    { FillReq(u, order_id, price) :
        u \in Traders, order_id \in 1..MaxOrders, price \in ProfitPrices }

FillForProfit ==
    \E req \in ProfitFills :
        /\ \E r \in {Serve(DB, req)} : ProfitBounds(r.db) /\ Respond(req, r)
        /\ UNCHANGED procs

NextProfit ==
    \/ TradeForProfit
    \/ SubmitForProfit
    \/ FillForProfit

SpecProfit == Init /\ [][NextProfit]_vars

\* ------------------------------------- a request and its oracle calls
\* One request at a time runs through its handler position by position;
\* tx.log lists what it did: "atomic" when @transaction.atomic is entered
\* (views.py 313, 700, 842: the decorator wraps the whole of post), "gate"
\* when is_market_open asks the market-status service (views.py 333,
\* market_hours.py 118-121; not for a crypto symbol, 100-107), "convert"
\* when CurrencyExchangeService.convert reads the rates (views.py 892 and
\* 906; not when the two currencies are the same), "write" at the first
\* save, create or delete, "commit" when post returns.  Its rows reach the
\* database at the commit.  Limit orders are submitted in one step.
OracleRequests ==
    { TradeReq(u, symbol, trade_type, 1, FALSE, CentParts, gate_open) :
        u \in Traders, symbol \in {"AAPL", "BTC-USD"}, trade_type \in {"BUY", "SELL"},
        gate_open \in BOOLEAN }
    \cup { TradeReq(u, "AAPL", "BUY", 0, FALSE, CentParts, TRUE) : u \in Traders }
    \cup { FillReq(u, order_id, CentParts) : u \in Traders, order_id \in OrderIdInputs }
    \cup { req \in { TransferReq(u, to_username, CentParts, rate_ok, TRUE) :
                       u \in Peers, to_username \in Peers, rate_ok \in BOOLEAN } :
               req.user # req.to_username }

\* The handler has passed the checks that precede its oracle call.
ReachesOracle(D, req) ==
    CASE req.op = "trade" -> Serve(D, req).error # "Invalid trade parameters"
      [] req.op = "transfer" ->
            Serve(D, req).error \notin { "Amount must be positive",
                                         "Recipient username is required",
                                         "Cannot transfer funds to yourself",
                                         "User not found", "Not accepted friends",
                                         "Insufficient buying power" }
      [] OTHER -> FALSE

\* The oracle calls of the handler before its first write.
OracleCallsBeforeWrite(req) ==
    CASE req.op = "trade" -> IF ContainsUsd(req.symbol) THEN << >> ELSE << "gate" >>
      [] req.op = "transfer" ->
            IF SettingsCurrency[req.user] = SettingsCurrency[req.to_username]
            THEN << >> ELSE << "convert" >>
      [] OTHER -> << >>

\* The oracle calls of the handler between its writes and its return.
OracleCallsAfterWrite(req) ==
    IF req.op = "transfer" /\ SettingsCurrency[req.user] # "USD"
    THEN << "convert" >> ELSE << >>

Writes(D, req) == Serve(D, req).db # D

LedgerUnchanged ==
    UNCHANGED << buying_power, initial_balance, last_reset_at, milestones,
                 xp, level, rank, market, holdings, next_id,
                 trades, orders, unlocked, transfers, last, cash_effect, gate,
                 watchlist, validation, procs >>

EnterAtomic ==
    \E req \in OracleRequests :
        /\ tx.pc \in {"idle", "returned"}
        /\ req.op \in {"trade", "fill"} => Len(trades) < MaxTrades
        /\ req.op = "transfer" => Len(transfers) < MaxTransfers
        /\ tx' = [req |-> req, pc |-> "entered", in_atomic |-> TRUE,
                  mutated |-> FALSE, log |-> << "atomic" >>]
        /\ LedgerUnchanged

CallOracles ==
    /\ tx.pc = "entered"
    /\ ReachesOracle(DB, tx.req)
    /\ tx' = [tx EXCEPT !.pc = "checked",
                        !.log = @ \o OracleCallsBeforeWrite(tx.req)]
    /\ LedgerUnchanged

FirstWrite ==
    /\ \/ tx.pc = "checked"
       \/ tx.pc = "entered" /\ ~ReachesOracle(DB, tx.req)
    /\ Writes(DB, tx.req)
    /\ tx' = [tx EXCEPT !.pc = "written", !.mutated = TRUE,
                        !.log = Append(@, "write")]
    /\ LedgerUnchanged

CallOraclesAfterWrite ==
    /\ tx.pc = "written"
    /\ tx.req.op = "transfer"
    /\ tx' = [tx EXCEPT !.pc = "recorded",
                        !.log = @ \o OracleCallsAfterWrite(tx.req)]
    /\ LedgerUnchanged

\* post returns its Response and the atomic block commits.
ReturnResponse ==
    /\ \/ tx.pc = "recorded"
       \/ tx.pc = "written" /\ tx.req.op # "transfer"
       \/ tx.pc = "checked" /\ ~Writes(DB, tx.req)
       \/ tx.pc = "entered" /\ ~ReachesOracle(DB, tx.req) /\ ~Writes(DB, tx.req)
    /\ CommitRows(tx.req, Serve(DB, tx.req))
    /\ tx' = [tx EXCEPT !.pc = "returned", !.in_atomic = FALSE,
                        !.log = Append(@, "commit")]
    /\ UNCHANGED procs

SubmitBetween ==
    \E req \in { SubmitReq(u, "AAPL", "BUY", 1, CentParts) : u \in Traders } :
        /\ tx.pc \in {"idle", "returned"}
        /\ \E r \in {Serve(DB, req)} : Len(r.db.orders) <= MaxOrders /\ Respond(req, r)
        /\ UNCHANGED procs

NextOracle ==
    \/ EnterAtomic
    \/ CallOracles
    \/ FirstWrite
    \/ CallOraclesAfterWrite
    \/ ReturnResponse
    \/ SubmitBetween

SpecOracle == Init /\ [][NextOracle]_vars

\* --------------------------------------- amounts the shares column rounds
\* One account trades one symbol at two cents a unit: whole units, and
\* amounts that end on half a unit of the shares column (a ninth decimal
\* of 5), which the column rounds.
MaxShareTrades == 4

SharePrice == 2 * CentParts

WholeUnitOrders ==
    { TradeReq(u, "AAPL", trade_type, shares, FALSE, SharePrice, TRUE) :
        u \in Traders, trade_type \in {"BUY", "SELL"}, shares \in 1..MaxShares }

HalfUnitOrders ==
    { HalfUnitReq(u, "AAPL", trade_type, shares, SharePrice) :
        u \in Traders, trade_type \in {"BUY", "SELL"}, shares \in 0..(MaxShares - 1) }

TradeWholeUnits ==
    \E req \in WholeUnitOrders :
        /\ \E r \in {Serve(DB, req)} : Len(r.db.trades) <= MaxShareTrades /\ Respond(req, r)
        /\ UNCHANGED procs

TradeHalfUnit ==
    \E req \in HalfUnitOrders :
        /\ \E r \in {Serve(DB, req)} : Len(r.db.trades) <= MaxShareTrades /\ Respond(req, r)
        /\ UNCHANGED procs

NextShares == TradeWholeUnits \/ TradeHalfUnit

SpecShares == Init /\ [][NextShares]_vars

\* ================================================================ claims
TradedShares(u, symbol, trade_type) ==
    SumShares(trades, { i \in 1..Len(trades) :
                           /\ trades[i].user = u
                           /\ trades[i].symbol = symbol
                           /\ trades[i].trade_type = trade_type })

\* C1: after any sequence of committed operations (market BUY/SELL,
\* limit-order submit/cancel/fill, outgoing or incoming transfer) the
\* buying power of every account is >= 0.
C1_BuyingPowerNonNegative == \A u \in Users : buying_power[u] >= 0

\* C1 witness: a committed debit has taken the whole balance.
C1_Witness ==
    /\ last.status \in {200, 201}
    /\ last.req.op \in {"trade", "submit", "transfer"}
    /\ buying_power[last.req.user] = 0
    /\ cash_effect[last.req.user] = -InitialBalance * CentParts

\* C2: concurrent requests on one account never act on a stale
\* buying_power: the balance is the starting value plus the cash effects of
\* every request that succeeded, and the accepted debits never exceed the
\* funds available.
C2_NoStaleBuyingPower ==
    \A u \in Users :
        /\ buying_power[u] * CentParts = InitialBalance * CentParts + cash_effect[u]
        /\ InitialBalance * CentParts + cash_effect[u] >= 0

\* C3: concurrent SELL executions on one (account, symbol) never sell more
\* shares in total than were held: the shares of the recorded SELL trades
\* never exceed those of the recorded BUY trades.
C3_NoDoubleSell ==
    \A u \in Users, symbol \in Symbols :
        TradedShares(u, symbol, "SELL") <= TradedShares(u, symbol, "BUY")

\* C4: every persisted holding has shares > 0; a holding sold down to zero
\* by a market SELL or a SELL fill is deleted, and no BUY leaves a row with
\* zero or negative shares.
C4_HoldingsPositive ==
    \A u \in Users, symbol \in Symbols :
        holdings[u][symbol].exists => holdings[u][symbol].shares > 0

\* The order a cancel or fill request names, if it is the user's.
OrderOf(req) ==
    IF req.order_id \in 1..Len(orders) /\ orders[req.order_id].user = req.user
    THEN orders[req.order_id] ELSE NoOrder

InvalidParameters(req) ==
    \/ req.symbol = ""
    \/ req.trade_type \notin {"BUY", "SELL"}
    \/ (req.shares <= 0 /\ ~req.dust)
    \/ req.price <= 0

\* C5: a market order or a limit-order submit that is rejected leaves the
\* database (buying_power, holdings, trades, orders, xp, and all else) as
\* it was, and each listed cause does reject: invalid parameters,
\* insufficient buying power, missing holding or insufficient shares, and
\* for market orders market closed and symbol invalid for the market.
C5_RejectedLeavesNoTrace ==
    \A req \in TradeRequests \cup SubmitRequests :
        LET r == Serve(DB, req)
            u == req.user
            H == HoldingRow(DB, u, req.symbol)
            rejected == r.status = 400 /\ r.db = DB
        IN  /\ r.status >= 400 => r.db = DB
            /\ InvalidParameters(req) => rejected
            /\ ~InvalidParameters(req) /\ req.trade_type = "BUY"
                 /\ req.shares * req.price > buying_power[u] * CentParts => rejected
            /\ ~InvalidParameters(req) /\ req.trade_type = "SELL"
                 /\ (~H.exists \/ req.shares > H.shares) => rejected
            /\ ~InvalidParameters(req) /\ req.op = "trade"
                 /\ ~ContainsUsd(req.symbol) /\ ~req.gate_open => rejected
            /\ ~InvalidParameters(req) /\ req.op = "trade" /\ req.trade_type = "BUY"
                 /\ market[u] = "US" /\ IsIndianSymbol(req.symbol) => rejected

\* C5 witness: an account with a holding, a trade and an order, where a
\* BUY is refused for insufficient buying power, a SELL for insufficient
\* shares and a SELL of another symbol for the missing holding.
C5_Witness ==
    /\ Len(trades) >= 1 /\ Len(orders) >= 1
    /\ \E symbol \in Symbols : holdings["alice"][symbol].exists
    /\ \E req \in TradeRequests \cup SubmitRequests :
          Serve(DB, req).error = "Insufficient buying power"
    /\ \E req \in TradeRequests \cup SubmitRequests :
          Serve(DB, req).error = "Insufficient shares"
    /\ \E req \in TradeRequests \cup SubmitRequests :
          Serve(DB, req).error = "No holdings"

\* C6: with requests applied one at a time, an order is never removed and
\* its status only changes PENDING -> CANCELLED or PENDING -> FILLED; a
\* cancel or fill request for an order that is CANCELLED or FILLED is
\* rejected and changes nothing in the database: with 404 "not found or
\* not pending", or, for a fill whose current price is not positive, with
\* 400 before the order is looked up.
C6_TerminalRejected ==
    \A req \in CancelRequests \cup FillRequests :
        OrderOf(req).status \in {"CANCELLED", "FILLED"} =>
            LET r == Serve(DB, req)
            IN  /\ r.db = DB
                /\ r.status = IF req.op = "fill" /\ req.price <= 0 THEN 400 ELSE 404

C6_StatusStep ==
    \A i \in 1..Len(orders) :
        /\ i <= Len(orders')
        /\ orders'[i].status # orders[i].status =>
              /\ orders[i].status = "PENDING"
              /\ orders'[i].status \in {"CANCELLED", "FILLED"}

C6_OrderLifecycle == []C6_TerminalRejected /\ [][C6_StatusStep]_vars

\* C6 witness: the last committed request cancelled or filled an order,
\* and a cancel and a fill for that order are now answered 404.
C6_Witness ==
    /\ last.req.op \in {"cancel", "fill"}
    /\ orders[last.req.order_id].status \in {"CANCELLED", "FILLED"}
    /\ Serve(DB, CancelReq(last.req.user, last.req.order_id)).status = 404
    /\ Serve(DB, FillReq(last.req.user, last.req.order_id, MaxPrice)).status = 404

\* The balance column after adding parts (positive or negative, in parts
\* of a cent) to a stored balance of cents.
Balance(cents, parts) == RoundColumn(cents * CentParts + parts, CentParts)

\* C7: cancelling a PENDING BUY order adds exactly
\* shares * limit_price to buying_power, and submit followed by cancel
\* gives back the buying_power from before the submit.
C7_ExactRefund ==
    /\ \A req \in CancelRequests :
          LET O == OrderOf(req)
              r == Serve(DB, req)
          IN  O.status = "PENDING" /\ O.trade_type = "BUY" =>
                r.db.buying_power[req.user] * CentParts =
                    buying_power[req.user] * CentParts + O.shares * O.limit_price
    /\ \A req \in SubmitRequests :
          LET s == Serve(DB, req)
              c == Serve(s.db, CancelReq(req.user, Len(s.db.orders)))
          IN  s.status = 201 /\ req.trade_type = "BUY" =>
                c.db.buying_power[req.user] = buying_power[req.user]

\* C7, what the handlers do guarantee: cancelling a PENDING BUY order adds
\* shares * limit_price to buying_power and the balance column rounds the
\* sum to the cent;
\* cancelling a PENDING SELL order leaves buying_power as it is; neither
\* changes a holding or a trade.  A BUY submit subtracts that same
\* shares * limit_price, again rounded to the cent, so submit followed by
\* cancel gives back the buying_power from before the submit when
\* shares * limit_price is a whole number of cents, and a balance within
\* one cent of it otherwise.
C7_CancelRefundsReservation ==
    /\ \A req \in CancelRequests :
          LET O == OrderOf(req)
              r == Serve(DB, req)
              u == req.user
          IN  O.status = "PENDING" =>
                /\ r.status = 200
                /\ r.db.orders = [orders EXCEPT ![req.order_id].status = "CANCELLED"]
                /\ r.db.holdings = holdings
                /\ r.db.trades = trades
                /\ r.db.buying_power[u] =
                      IF O.trade_type = "BUY"
                      THEN Balance(buying_power[u], O.shares * O.limit_price)
                      ELSE buying_power[u]
    /\ \A req \in SubmitRequests :
          LET s == Serve(DB, req)
              u == req.user
              id == Len(s.db.orders)
              c == Serve(s.db, CancelReq(u, id))
              total == req.shares * req.price
          IN  s.status = 201 /\ req.trade_type = "BUY" =>
                /\ id = Len(orders) + 1
                /\ s.db.orders[id].shares = req.shares
                /\ s.db.orders[id].limit_price = req.price
                /\ s.db.buying_power[u] = Balance(buying_power[u], -total)
                /\ c.status = 200
                /\ Abs(c.db.buying_power[u] - buying_power[u]) <= 1
                /\ total % CentParts = 0 => c.db.buying_power[u] = buying_power[u]

\* C7 witness: a BUY order whose reservation was not a whole number of
\* cents was cancelled after a trade had been executed.
C7_Witness ==
    /\ last.req.op = "cancel" /\ last.status = 200
    /\ orders[last.req.order_id].trade_type = "BUY"
    /\ orders[last.req.order_id].status = "CANCELLED"
    /\ (orders[last.req.order_id].shares * orders[last.req.order_id].limit_price)
          % CentParts # 0
    /\ Len(trades) >= 1
    /\ trades[1].total > 0

\* C8: a fill request on a PENDING order whose current price violates the
\* limit condition (BUY above the limit, SELL below it) is rejected with
\* 400 and changes nothing: the order stays PENDING, and buying_power,
\* holdings, trades and xp are as before.
C8_PriceViolationRejected ==
    \A req \in FillRequests :
        LET O == OrderOf(req)
            r == Serve(DB, req)
        IN  /\ O.status = "PENDING"
            /\ \/ O.trade_type = "BUY" /\ req.price > O.limit_price
               \/ O.trade_type = "SELL" /\ req.price < O.limit_price /\ req.price > 0
            => /\ r.status = 400
               /\ r.db = DB
               /\ r.db.orders[req.order_id].status = "PENDING"

\* C8 witness: a PENDING SELL order, placed against shares bought
\* earlier, whose fill below the limit is refused.
C8_Witness ==
    /\ Len(trades) >= 1
    /\ \E req \in FillRequests :
          /\ OrderOf(req).status = "PENDING"
          /\ OrderOf(req).trade_type = "SELL"
          /\ req.price > 0 /\ req.price < OrderOf(req).limit_price
          /\ Serve(DB, req).error = "Price condition not met for SELL"

RECURSIVE SumHoldings(_, _, _)
SumHoldings(D, u, syms) ==
    IF syms = {} THEN 0
    ELSE LET symbol == CHOOSE x \in syms : TRUE
             H == D.holdings[u][symbol]
         IN  (IF H.exists THEN H.shares * H.avg_cost ELSE 0)
             + SumHoldings(D, u, syms \ {symbol})

\* buyingPower + sum of shares x avgCost, in micros.
PortfolioValue(D, u) == D.buying_power[u] * CentMicros + SumHoldings(D, u, Symbols)

\* The conservation identity for one served market order: the balance
\* moves by the total of the recorded Trade, a BUY leaves the portfolio
\* value where it was up to half a micro per share held (the rounding
\* of avgCost), a SELL moves it by shares x (price - avgCost).
Conserves(D, req) ==
    LET r == Serve(D, req)
        u == req.user
        H == D.holdings[u][req.symbol]
        T == r.db.trades[Len(r.db.trades)]
        moved == r.db.buying_power[u] - D.buying_power[u]
        drift == PortfolioValue(r.db, u) - PortfolioValue(D, u)
    IN  r.status = 201 =>
            IF req.trade_type = "BUY"
            THEN /\ moved = -T.total
                 /\ 2 * Abs(drift) <= r.db.holdings[u][req.symbol].shares
            ELSE /\ moved = T.total
                 /\ drift = req.shares * (req.price * PartMicros - H.avg_cost)

C11_ConservationWholeCents ==
    \A req \in TradeRequests :
        (req.shares * req.price) % CentParts = 0 /\ ~req.dust => Conserves(DB, req)


\* ------------------------------------------------------------ C12
\* Row H1 is row H after s more shares were bought at price p: created
\* with shares = s and avgCost = p when H did not exist, else shares =
\* old + s and avgCost = (old x oldAvg + s x p) / (old + s) to the micro.
AveragedInto(H, H1, s, p) ==
    /\ H1.exists
    /\ IF ~H.exists
       THEN H1.shares = s /\ H1.avg_cost = p * PartMicros
       ELSE LET n == H.shares + s
            IN  /\ H1.shares = n
                /\ H1.id = H.id
                /\ 2 * Abs(H1.avg_cost * n - (H.shares * H.avg_cost + s * p * PartMicros)) <= n

TradeRow(u, symbol, trade_type, shares, price) ==
    [user |-> u, symbol |-> symbol, trade_type |-> trade_type,
     shares |-> shares, price |-> price,
     total |-> RoundColumn(shares * price, CentParts)]

\* A served market order or fill appends its one Trade when it succeeds
\* and none when it is rejected; the other requests append none.
C14_OneTradePerExecution ==
    /\ \A req \in TradeRequests :
          LET r == Serve(DB, req)
          IN  r.db.trades =
                IF r.status = 201
                THEN Append(trades, TradeRow(req.user, req.symbol, req.trade_type,
                                             req.shares, req.price))
                ELSE trades
    /\ \A req \in FillRequests :
          LET r == Serve(DB, req)
              O == OrderOf(req)
          IN  r.db.trades =
                IF r.status = 201
                THEN Append(trades, TradeRow(req.user, O.symbol, O.trade_type,
                                             O.shares, req.price))
                ELSE trades
    /\ \A req \in SubmitRequests \cup CancelRequests \cup TransferRequests :
          Serve(DB, req).db.trades = trades

\* Every step leaves the Trades there are as they are, and adds at most
\* one, for a market order or a fill that succeeded.
C14_TradesStep ==
    \/ trades' = trades
    \/ /\ Len(trades') = Len(trades) + 1
       /\ SubSeq(trades', 1, Len(trades)) = trades
       /\ last'.req.op \in {"trade", "fill"}
       /\ last'.status = 201

TransferContract(D, req) ==
    LET r == Serve(D, req)
        S == req.user
        R == req.to_username
        a == req.amount
    IN  IF r.status = 200
        THEN /\ R \in Users /\ S # R
             /\ \E f \in Friendship :
                   f.status = "accepted" /\ {f.from_user, f.to_user} = {S, R}
             /\ 0 < a /\ a <= D.buying_power[S] * CentParts
             /\ r.db.buying_power[S] * CentParts = D.buying_power[S] * CentParts - a
             /\ r.db.buying_power[R] = D.buying_power[R]
                   + RoundColumn(a * Rates[SettingsCurrency[R]],
                                 Rates[SettingsCurrency[S]] * CentParts)
             /\ SettingsCurrency[S] = SettingsCurrency[R] =>
                   r.db.buying_power[R] * CentParts = D.buying_power[R] * CentParts + a
             /\ \A u \in Users \ {S, R} : r.db.buying_power[u] = D.buying_power[u]
             /\ Len(r.db.transfers) = Len(D.transfers) + 1
             /\ SubSeq(r.db.transfers, 1, Len(D.transfers)) = D.transfers
             /\ r.db.transfers[Len(r.db.transfers)].from_user = S
             /\ r.db.transfers[Len(r.db.transfers)].to_user = R
        ELSE r.status >= 400 /\ r.db = D

\* C15: a transfer succeeds only if sender and recipient differ, are
\* joined by an accepted friendship in either direction and 0 < a <=
\* S.buyingPower; on success S.buyingPower goes down by exactly a,
\* R.buyingPower goes up by a converted to R's currency (exactly a when
\* the currencies are equal) and one Transfer is appended; a rejection
\* changes neither balance and appends nothing.
C15_TransferContract == \A req \in FriendTransferRequests : TransferContract(DB, req)

\* What the code does keep: the same contract for the transfers of a
\* whole number of cents.
C15_TransferWholeCents ==
    \A req \in FriendTransferRequests :
        req.amount % CentParts = 0 => TransferContract(DB, req)

\* C15 witness: half a cent was sent between two friends of the same
\* currency; the sender's balance is what it was and the recipient has a
\* cent more.
C15_Witness ==
    /\ last.req.op = "transfer" /\ last.status = 200 /\ last.req.amount = 1
    /\ last.req.user = "alice" /\ last.req.to_username = "carol"
    /\ Len(transfers) = 1
    /\ buying_power["alice"] = InitialBalance
    /\ buying_power["carol"] = InitialBalance + 1


\* ------------------------------------------------------------ C16
\* The request passes every check of the transfer handler.
TransferAllowed(D, req) ==
    /\ req.to_username \in Users \ {req.user}
    /\ \E f \in Friendship :
          f.status = "accepted" /\ {f.from_user, f.to_user} = {req.user, req.to_username}
    /\ 0 < req.amount /\ req.amount <= D.buying_power[req.user] * CentParts

\* The transfer went through and its record carries the sender amount as
\* the USD amount when the USD conversion was not to be had.
TransferredWithFallback(D, req) ==
    LET r == Serve(D, req)
        T == r.db.transfers[Len(r.db.transfers)]
    IN  /\ r.status = 200
        /\ Len(r.db.transfers) = Len(D.transfers) + 1
        /\ T.from_user = req.user /\ T.to_user = req.to_username
        /\ ~req.usd_ok => T.amount = T.display_amount

\* C16: a transfer that passes the checks goes through whether or not the
\* rate conversions can be had: sender debited, recipient credited, the
\* Transfer appended, its USD amount the sender amount when the USD
\* conversion fails.
C16_OracleFailureAbsorbed ==
    \A req \in FriendTransferRequests :
        TransferAllowed(DB, req) /\ (~req.rate_ok \/ ~req.usd_ok) =>
            TransferredWithFallback(DB, req)

\* What the code does keep: the failure of the USD conversion alone is
\* absorbed.
C16_UsdFallback ==
    \A req \in FriendTransferRequests :
        TransferAllowed(DB, req) /\ req.rate_ok /\ ~req.usd_ok =>
            TransferredWithFallback(DB, req)


\* ------------------------------------------------------------ C17
\* An execution of side trade_type in symbol by u, in a request made when
\* the gate answers gate_open, passes the gate and, for a BUY, the
\* symbol-market validator.
PassesPreChecks(D, u, symbol, trade_type, gate_open) ==
    /\ ContainsUsd(symbol) \/ gate_open
    /\ trade_type = "BUY" =>
          \/ ContainsUsd(symbol)
          \/ D.market[u] = "IN" /\ IsIndianSymbol(symbol)
          \/ D.market[u] = "US" /\ ~IsIndianSymbol(symbol)

\* Every market order that records a Trade passed the pre-checks.
C17_MarketOrdersGated ==
    \A req \in MarketTradeRequests :
        Serve(DB, req).status = 201 =>
            PassesPreChecks(DB, req.user, req.symbol, req.trade_type, req.gate_open)

\* Every fill that records a Trade passed the pre-checks.
C17_FillsGated ==
    \A req \in MarketFillRequests :
        Serve(DB, req).status = 201 =>
            PassesPreChecks(DB, req.user, OrderOf(req).symbol, OrderOf(req).trade_type,
                            req.gate_open)

\* C17: every execution that records a Trade, market order or fill,
\* passed the market gate and, for a BUY, the symbol-market validator in
\* the same request: no Trade in a non-crypto symbol while the gate says
\* closed, no BUY Trade in a symbol that is invalid for the user's market.
C17_ExecutionsGated == C17_MarketOrdersGated /\ C17_FillsGated

\* C17 witness: a limit BUY of an Indian symbol, submitted and filled
\* under the US market while the gate said closed, has left its Trade.
C17_Witness ==
    /\ last.req.op = "fill" /\ last.status = 201 /\ ~last.req.gate_open
    /\ market[last.req.user] = "US"
    /\ Len(trades) = 1
    /\ trades[1].trade_type = "BUY" /\ trades[1].symbol = "TCS.NS"
    /\ holdings[last.req.user]["TCS.NS"].exists


\* ------------------------------------------------------------ C18
\* C18: the symbol-market check is applied to BUY only.  A market SELL
\* is never answered with the symbol-market rejection, and a SELL of
\* shares the user holds succeeds whenever the gate is open, whatever
\* the user's market is now; a BUY in a symbol that is invalid for the
\* user's market is rejected once the gate is passed.
C18_SellNotValidated ==
    \A req \in MarketTradeRequests :
        LET r == Serve(DB, req)
            u == req.user
            H == holdings[u][req.symbol]
            open == ContainsUsd(req.symbol) \/ req.gate_open
            valid == \/ ContainsUsd(req.symbol)
                     \/ market[u] = "IN" /\ IsIndianSymbol(req.symbol)
                     \/ market[u] = "US" /\ ~IsIndianSymbol(req.symbol)
        IN  IF req.trade_type = "SELL"
            THEN /\ r.error # "Symbol not available in market"
                 /\ H.exists /\ H.shares >= req.shares /\ open => r.status = 201
            ELSE open /\ ~valid =>
                    r.status = 400 /\ r.error = "Symbol not available in market"

\* C18 witness: a US share bought under the US market was sold after the
\* user switched to the Indian market.
C18_Witness ==
    /\ last.req.op = "trade" /\ last.status = 201 /\ last.req.trade_type = "SELL"
    /\ last.req.symbol = "AAPL" /\ market[last.req.user] = "IN"
    /\ Len(trades) = 2
    /\ trades[1].trade_type = "BUY" /\ trades[1].symbol = "AAPL"
    /\ trades[2].trade_type = "SELL" /\ trades[2].symbol = "AAPL"
    /\ ~holdings[last.req.user]["AAPL"].exists


\* ------------------------------------------------------------ C19
\* The minute of the week (Monday 00:00 = 0) that the zone of market mkt
\* shows at the instant dt: New York is 5 hours behind UTC, 4 in daylight
\* time, India 5 hours 30 ahead.
LocalWeekMinute(dt, mkt) ==
    LET wall == dt.weekday * 1440 + dt.minute
        utc == IF dt.aware THEN wall - dt.utcoffset ELSE wall
        there == IF mkt = "IN" THEN utc + 330
                 ELSE IF dt.dst THEN utc - 240 ELSE utc - 300
    IN  (there + 10080) % 10080

\* The schedule: Monday to Friday, US 9:30-16:00, IN 9:15-15:30 local.
ScheduleSaysOpen(dt, mkt) ==
    LET w == LocalWeekMinute(dt, mkt)
        t == w % 1440
    IN  /\ w < 5 * 1440
        /\ IF mkt = "IN" THEN 555 <= t /\ t < 930 ELSE 570 <= t /\ t < 960

\* C19: is_market_open always returns a decision and never raises.  For
\* a symbol containing '-USD' it says open with source 'local'; else,
\* when now is not supplied, it gives the oracle's answer with source
\* 'finnhub' when the oracle returns a status, and the schedule's
\* decision with source 'schedule' when the oracle returns nothing or
\* raises.
C19_GateAlwaysDecides ==
    gate.called =>
        LET r == gate.result
        IN  /\ ~r.raised
            /\ r.is_open \in BOOLEAN
            /\ r.source \in {"local", "finnhub", "schedule"}
            /\ gate.symbol = "BTC-USD" => r.is_open /\ r.source = "local"
            /\ gate.symbol # "BTC-USD" /\ ~gate.now.given =>
                  IF gate.status \in {"open", "closed"}
                  THEN r.source = "finnhub" /\ (r.is_open <=> gate.status = "open")
                  ELSE /\ r.source = "schedule"
                       /\ gate.mkt \in {"US", "IN"} =>
                             (r.is_open <=> ScheduleSaysOpen(gate.clock, gate.mkt))

\* C19 witness: the oracle raised during trading hours in India and the
\* gate answered open from the schedule.
C19_Witness ==
    /\ gate.called /\ gate.symbol = "AAPL" /\ gate.mkt = "IN"
    /\ ~gate.now.given /\ gate.status = "raises"
    /\ gate.clock = Datetime(0, 3 * 60 + 45, FALSE, 0, FALSE)
    /\ gate.result.is_open /\ gate.result.source = "schedule"

\* ------------------------------------------------------------ C20
\* C20: with now supplied, is_market_open for a non-crypto symbol decides
\* by the schedule alone, source 'schedule', whatever the oracle would
\* say: closed on Saturday and Sunday of the market's zone, and open on
\* a weekday exactly when the local time t has open <= t < close (US
\* 9:30-16:00 America/New_York, IN 9:15-15:30 Asia/Kolkata).
C20_ScheduleOnlyWhenNowGiven ==
    gate.called /\ gate.symbol # "BTC-USD" /\ gate.now.given /\ gate.mkt \in {"US", "IN"} =>
        /\ ~gate.result.raised
        /\ gate.result.source = "schedule"
        /\ gate.result.is_open <=> ScheduleSaysOpen(gate.now, gate.mkt)

\* C20 witness: now is a Saturday 01:00 in India's zone, which is Friday
\* 15:30 in New York; the oracle would say closed, the gate says open
\* for the US market, by the schedule.
C20_Witness ==
    /\ gate.called /\ gate.symbol = "AAPL" /\ gate.mkt = "US"
    /\ gate.now = Datetime(5, 60, TRUE, 330, TRUE)
    /\ gate.status = "closed"
    /\ gate.result.is_open /\ gate.result.source = "schedule"

\* C21: is_symbol_valid_for_market(symbol, market) returns valid exactly
\* when the symbol contains '-USD', or the market is 'IN' and the symbol
\* ends with .NS or .BO, or the market is 'US' and the symbol ends with
\* neither, or the market is any other value; an invalid result carries a
\* message that names the symbol and the market, a valid one the empty
\* message.
C21_ValidExactlyWhen ==
    validation.called =>
        LET symbol == validation.symbol
            mkt == validation.mkt
            r == validation.result
            suffixed == EndsWith(symbol, DotNs) \/ EndsWith(symbol, DotBo)
        IN  /\ r.valid <=> \/ Contains(symbol, DashUsd)
                           \/ mkt = "IN" /\ suffixed
                           \/ mkt = "US" /\ ~suffixed
                           \/ mkt \notin {"IN", "US"}
            /\ r.valid => r.message = << >>
            /\ ~r.valid =>
                  /\ Len(r.message) = 4
                  /\ r.message[1] = symbol
                  /\ r.message[3] = (IF mkt = "IN" THEN "India (NSE/BSE)" ELSE mkt)

\* C21 witness: a symbol with the .BO suffix was refused for the US market.
C21_Witness ==
    /\ validation.called
    /\ validation.symbol = << "A" >> \o DotBo
    /\ validation.mkt = "US"
    /\ ~validation.result.valid
    /\ validation.result.message # << >>

\* C22: check_achievements invoked twice in a row for the same account,
\* with no state change in between, unlocks nothing on the second call (it
\* returns an empty list); and no sequence of calls ever stores two unlock
\* rows for the same (account, achievement).
C22_SecondCallEmpty ==
    \A u \in Traders :
        LET first == check_achievements(DB, u)
        IN  /\ NewlyEarned(first, u) = {}
            /\ check_achievements(first, u) = first

C22_NoDuplicateUnlocks ==
    \A i \in 1..Len(unlocked), j \in 1..Len(unlocked) :
        (unlocked[i].user = unlocked[j].user
         /\ unlocked[i].achievement = unlocked[j].achievement) => i = j

C22_AchievementIdempotence == C22_SecondCallEmpty /\ C22_NoDuplicateUnlocks

\* C22 witness: two requests found the tenth watchlist symbol and the
\* achievement for it not yet unlocked; the first has inserted the row and
\* the second is about to insert the same one.
C22_Witness ==
    \E p \in Procs, q \in Procs :
        /\ p # q
        /\ procs[p].pc = "idle"
        /\ procs[q].pc = "insert"
        /\ "watchlist_10" \in procs[q].newly
        /\ "watchlist_10" \in UnlockedIds(DB, procs[q].req.user)
        /\ NewlyEarned(DB, procs[q].req.user) = {}

\* C23: between account resets the 5-holdings milestone bonus (150 XP) and
\* the 10-holdings milestone bonus (250 XP) are each awarded at most once
\* per account, and only by a trade after which the account holds exactly
\* 5 (respectively exactly 10) distinct symbols.
AwardsOf(u, bonus) == Cardinality({ i \in 1..Len(milestones[u]) : milestones[u][i] = bonus })

C23_AtMostOnce ==
    \A u \in Users : AwardsOf(u, XP_5_HOLDINGS) <= 1 /\ AwardsOf(u, XP_10_HOLDINGS) <= 1

\* Each award is made by a trade that leaves the account with exactly 5
\* (150 XP) or exactly 10 (250 XP) holdings, and raises the stored xp by
\* at least the bonus.
C23_OnlyAtExactCount ==
    [][\A u \in Users :
          milestones'[u] # milestones[u] /\ milestones'[u] # << >> =>
              LET bonus == milestones'[u][Len(milestones'[u])]
                  held == Cardinality({ s \in Symbols : holdings'[u][s].exists })
              IN  /\ bonus = XP_5_HOLDINGS => held = 5
                  /\ bonus = XP_10_HOLDINGS => held = 10
                  /\ bonus \in {XP_5_HOLDINGS, XP_10_HOLDINGS}
                  /\ xp'[u] >= xp[u] + XP_TRADE_EXECUTED + bonus]_vars

C23_MilestonesOnce == []C23_AtMostOnce /\ C23_OnlyAtExactCount

\* C23 witness: with five symbols held since the fifth was bought, a second
\* share of one of them brought the 150 XP again.
C23_Witness ==
    /\ milestones["alice"] = << XP_5_HOLDINGS, XP_5_HOLDINGS >>
    /\ Len(trades) = 6
    /\ HoldingsCount(DB, "alice") = 5
    /\ last.req.op = "trade" /\ last.req.trade_type = "BUY" /\ last.status = 201

\* C24: across any interleaving of trade executions, limit-order fills
\* and achievement awards on one account, with no account reset, the
\* account's stored xp never decreases, and every successful execution
\* raises it by at least the flat per-trade award.
C24_XpStep ==
    \A u \in Users :
        /\ xp'[u] >= xp[u]
        /\ (Len(trades') = Len(trades) + 1 /\ trades'[Len(trades')].user = u) =>
              xp'[u] >= xp[u] + XP_TRADE_EXECUTED

C24_XpMonotone == [][C24_XpStep]_vars

\* C24 witness: a second execution committed on the account and its
\* stored xp is below what the first execution alone had brought.
C24_Witness ==
    /\ Len(trades) = 2
    /\ trades[1].user = "alice" /\ trades[2].user = "alice"
    /\ xp["alice"] < XP_TRADE_EXECUTED + XP_FIRST_TRADE_BONUS

\* C25: in every committed state reached by trades, fills and reset, an
\* account's stored (level, rank) is the rung of the fixed ladder with the
\* highest XP threshold <= xp (thresholds 0, 500, 1500, 4000, 8000, 15000,
\* 30000 for levels 1..7).
C25_Thresholds == << 0, 500, 1500, 4000, 8000, 15000, 30000 >>
C25_Titles == << "Retail Trader", "Day Trader", "Swing Trader", "Floor Trader",
                 "Fund Manager", "Market Maker", "Wall Street Legend" >>
C25_Rung(x) == Cardinality({ i \in 1..Len(C25_Thresholds) : C25_Thresholds[i] <= x })

\* XP amounts on either side of every threshold.
C25_SampleXp ==
    UNION { { C25_Thresholds[i] - 25, C25_Thresholds[i], C25_Thresholds[i] + 25 } :
              i \in 2..Len(C25_Thresholds) } \cup {0, 25, 100000}

C25_StoredRankMatchesLadder ==
    /\ \A u \in Users :
          /\ xp[u] >= 0
          /\ level[u] = C25_Rung(xp[u])
          /\ rank[u] = C25_Titles[level[u]]
    /\ \A x \in C25_SampleXp :
          /\ get_rank_for_xp(x).level = C25_Rung(x)
          /\ get_rank_for_xp(x).rank = C25_Titles[C25_Rung(x)]

\* C25 witness: trades and a fill have taken the account past the
\* threshold of level 3.
C25_Witness ==
    /\ xp["alice"] >= 1500
    /\ level["alice"] = 3 /\ rank["alice"] = "Swing Trader"
    /\ \E i \in 1..Len(orders) : orders[i].status = "FILLED"

\* A reset has taken an account that had created five holdings back to
\* xp 0 and level 1.
C25_ResetWitness ==
    /\ last.req.op = "reset" /\ last.status = 200
    /\ xp["alice"] = 0 /\ level["alice"] = 1
    /\ trades = << >>
    /\ cash_effect["alice"] = 0
    /\ next_id > 5

\* ------------------------------------------------------------------ C26
\* The sales a state of SpecProfit may receive: a market SELL order or the
\* fill of the pending SELL limit order.
C26_Sales == { req \in ProfitOrders : req.trade_type = "SELL" } \cup ProfitFills

C26_Sold(r) ==
    /\ r.status = 201
    /\ Len(r.db.trades) = Len(trades) + 1
    /\ r.db.trades[Len(r.db.trades)].trade_type = "SELL"

\* The average buy price the realized-profit computation uses for the SELL
\* trade that r recorded is the avg_cost of the holding the sale was made
\* from, to within a micro per BUY trade (the holding's column keeps 6
\* decimals, the computation divides exactly), and so is the profit, to
\* within that and the half part the model's quotient rounds by.
C26_AgreesWithHolding(r) ==
    LET i == Len(r.db.trades)
        sell == r.db.trades[i]
        H == holdings[sell.user][sell.symbol]
        buys == BuysUpTo(r.db, sell.user, sell.symbol, i)
        cost == SumCost(r.db.trades, buys)
        n == SumShares(r.db.trades, buys)
    IN  /\ n > 0
        /\ Abs(cost * PartMicros - H.avg_cost * n) <= n * Cardinality(buys)
        /\ 2 * Abs(SellProfit(r.db, sell.user, i) * PartMicros
                   - (sell.price * PartMicros - H.avg_cost) * sell.shares)
              <= PartMicros + 2 * sell.shares * Cardinality(buys)

C26_NoBuyAfterSell(u, symbol) ==
    \A i \in 1..Len(trades) : \A j \in 1..Len(trades) :
        ~ /\ i < j
          /\ trades[i].user = u /\ trades[i].symbol = symbol /\ trades[i].trade_type = "SELL"
          /\ trades[j].user = u /\ trades[j].symbol = symbol /\ trades[j].trade_type = "BUY"

\* What does hold: the two averages agree for every sale of a position
\* that was never added to after a sale.
C26_ProfitWithoutRebuy ==
    \A req \in C26_Sales :
        LET r == Serve(DB, req)
        IN  (C26_Sold(r) /\ C26_NoBuyAfterSell(req.user, r.db.trades[Len(r.db.trades)].symbol))
               => C26_AgreesWithHolding(r)

C26_WithoutRebuyWitness ==
    /\ Len(trades) = 3
    /\ trades[1].trade_type = "BUY" /\ trades[2].trade_type = "BUY"
    /\ trades[2].price # trades[1].price
    /\ trades[3].trade_type = "SELL"
    /\ \E req \in C26_Sales : C26_Sold(Serve(DB, req))

\* ------------------------------------------------------------------ C27
\* A cancel or a fill that commits with success.
C27_TakesEffect(p) ==
    /\ procs[p].pc = "read"
    /\ procs'[p].pc = "idle"
    /\ procs[p].req.op \in {"cancel", "fill"}
    /\ Handle(DB, procs[p]).status < 400

C27_Step ==
    \A p \in Procs :
        C27_TakesEffect(p) =>
            LET req == procs[p].req
            IN  /\ GetPendingOrder(DB, req.user, req.order_id) # NoOrder
                /\ orders'[req.order_id].status =
                      IF req.op = "cancel" THEN "CANCELLED" ELSE "FILLED"

\* C27: of a cancel and a fill, or two fills, of one PENDING order running
\* concurrently at most one takes effect: every cancel or fill that commits
\* with success finds the order still PENDING in the database, and leaves
\* it with the status of that operation.
C27_OneTakesEffect == [][C27_Step]_vars

\* The cancel refunded the reserved cash and the fill bought the shares
\* with it: the account has its whole starting balance and the shares.
C27_Witness ==
    /\ Len(orders) = 1 /\ orders[1].trade_type = "BUY" /\ orders[1].status = "FILLED"
    /\ Len(trades) = 1 /\ trades[1].trade_type = "BUY"
    /\ holdings[orders[1].user][orders[1].symbol].shares = orders[1].shares
    /\ buying_power[orders[1].user] = InitialBalance
    /\ \A p \in Procs : procs[p].pc = "idle"

\* One order filled twice: two trades and twice its shares.
C27_FilledTwiceWitness ==
    /\ Len(orders) = 1 /\ orders[1].trade_type = "BUY" /\ orders[1].status = "FILLED"
    /\ Len(trades) = 2
    /\ holdings[orders[1].user][orders[1].symbol].shares = 2 * orders[1].shares
    /\ buying_power[orders[1].user] = 0

\* ------------------------------------------------------------------ C28
\* The totals of the trades of user u of one side, in cents.
C28_Totals(u, trade_type) ==
    SumTotal(trades, { i \in 1..Len(trades) :
                          trades[i].user = u /\ trades[i].trade_type = trade_type })

\* shares x limit_price over the PENDING BUY orders of user u, in parts of
\* a cent.
RECURSIVE C28_SumReserved(_)
C28_SumReserved(idx) ==
    IF idx = {} THEN 0
    ELSE LET i == CHOOSE k \in idx : TRUE
         IN  orders[i].shares * orders[i].limit_price + C28_SumReserved(idx \ {i})

C28_Reserved(u) ==
    C28_SumReserved({ i \in 1..Len(orders) :
                        /\ orders[i].user = u
                        /\ orders[i].trade_type = "BUY"
                        /\ orders[i].status = "PENDING" })

C28_NoTransfers(u) ==
    \A i \in 1..Len(transfers) : transfers[i].from_user # u /\ transfers[i].to_user # u

C28_Identity(u) ==
    buying_power[u] * CentParts =
        (initial_balance[u] - C28_Totals(u, "BUY") + C28_Totals(u, "SELL")) * CentParts
        - C28_Reserved(u)

\* C28: with requests applied one at a time, an account without transfers
\* has buyingPower = initialBalance - totals of its BUY trades + totals of
\* its SELL trades - shares x limitPrice of its PENDING BUY orders.
C28_CashIdentity == \A u \in Users : C28_NoTransfers(u) => C28_Identity(u)

\* Every trade and every limit order of user u, whatever its status, is
\* for a whole number of cents.
C28_WholeCents(u) ==
    /\ \A i \in 1..Len(trades) :
          trades[i].user = u => (trades[i].shares * trades[i].price) % CentParts = 0
    /\ \A i \in 1..Len(orders) :
          orders[i].user = u => (orders[i].shares * orders[i].limit_price) % CentParts = 0

\* What does hold: the identity, for accounts whose trades and orders are
\* all for whole cents.
C28_CashIdentityWholeCents ==
    \A u \in Users : (C28_NoTransfers(u) /\ C28_WholeCents(u)) => C28_Identity(u)

\* A BUY of half a cent left the balance where it was and recorded a
\* Trade of one cent.
C28_Witness ==
    /\ Len(trades) = 1 /\ trades[1].trade_type = "BUY"
    /\ trades[1].shares * trades[1].price = 1
    /\ trades[1].total = 1
    /\ C28_NoTransfers(trades[1].user)
    /\ buying_power[trades[1].user] = initial_balance[trades[1].user]

\* A trade, a filled order and a pending BUY order, all in whole cents.
C28_WholeCentsWitness ==
    \E u \in Traders :
        /\ C28_NoTransfers(u) /\ C28_WholeCents(u)
        /\ C28_Totals(u, "BUY") > 0
        /\ C28_Reserved(u) > 0

\* ------------------------------------------------------------------ C29
\* C29: with requests applied one at a time, in every state and for every
\* (account, symbol) the shares of the holding, zero if there is no row,
\* are the shares of the account's BUY trades in the symbol minus those of
\* its SELL trades, market orders and limit fills alike.
C29_SharesMatchTrades ==
    \A u \in Users, symbol \in Symbols :
        (IF holdings[u][symbol].exists THEN holdings[u][symbol].shares ELSE 0)
            = TradedShares(u, symbol, "BUY") - TradedShares(u, symbol, "SELL")

\* The same two quantities on a database D.
C29_Held(D, u, symbol) ==
    IF D.holdings[u][symbol].exists THEN D.holdings[u][symbol].shares ELSE 0

C29_Net(D, u, symbol) ==
    SumShares(D.trades, { i \in 1..Len(D.trades) :
                            /\ D.trades[i].user = u /\ D.trades[i].symbol = symbol
                            /\ D.trades[i].trade_type = "BUY" })
    - SumShares(D.trades, { i \in 1..Len(D.trades) :
                              /\ D.trades[i].user = u /\ D.trades[i].symbol = symbol
                              /\ D.trades[i].trade_type = "SELL" })

\* What does hold: every market order but a SELL of an amount that ends on
\* half a unit of the shares column changes the holding by the shares that
\* its Trade records.
C29_ExceptHalfUnitSale ==
    \A req \in WholeUnitOrders \cup HalfUnitOrders :
        LET r == Serve(DB, req)
        IN  (r.status = 201 /\ ~(req.half /\ req.trade_type = "SELL")) =>
               \A u \in Users, symbol \in Symbols :
                   C29_Held(r.db, u, symbol) - C29_Held(DB, u, symbol)
                      = C29_Net(r.db, u, symbol) - C29_Net(DB, u, symbol)

\* Half a unit was sold out of a holding of one: the holding still has
\* one unit, the SELL Trade records one.
C29_Witness ==
    /\ Len(trades) = 2
    /\ trades[1].trade_type = "BUY" /\ trades[1].shares = 1
    /\ trades[2].trade_type = "SELL" /\ trades[2].shares = 1
    /\ last.status = 201 /\ last.req.half /\ last.req.shares = 0
    /\ holdings[trades[1].user][trades[1].symbol].exists
    /\ holdings[trades[1].user][trades[1].symbol].shares = 1

\* Purchases of whole units and of an amount ending on half a unit, then a
\* sale of a whole unit.
C29_MatchWitness ==
    /\ Len(trades) = 3
    /\ trades[1].trade_type = "BUY" /\ trades[2].trade_type = "BUY"
    /\ trades[3].trade_type = "SELL"
    /\ \E u \in Traders : C29_Held(DB, u, "AAPL") = C29_Net(DB, u, "AAPL") /\ C29_Held(DB, u, "AAPL") > 0

\* ------------------------------------------------------------------ C30
C30_IsOracleCall(e) == e \in {"gate", "convert"}

\* No oracle call is logged after the event e of the running request.
C30_NoneAfter(e) ==
    \A i \in 1..Len(tx.log) : \A j \in 1..Len(tx.log) :
        (i < j /\ tx.log[i] = e) => ~C30_IsOracleCall(tx.log[j])

\* C30: in every market order, limit fill and transfer, all oracle calls
\* (market-gate status, currency conversion) complete before the request's
\* transactional section begins, and none is made between the first ledger
\* mutation and the commit.
C30_OraclesOutsideTransaction ==
    tx.req.op \in {"trade", "fill", "transfer"} =>
        C30_NoneAfter("atomic") /\ C30_NoneAfter("write")

\* What does hold: a market order and a fill make no oracle call after
\* their first write, a fill and an order in a crypto symbol make none at
\* all, and a transfer converts into the recipient's currency before its
\* first write.
C30_OrdersCallBeforeWrite ==
    /\ tx.req.op \in {"trade", "fill"} => C30_NoneAfter("write")
    /\ (tx.req.op = "fill" \/ (tx.req.op = "trade" /\ ContainsUsd(tx.req.symbol))) =>
          \A i \in 1..Len(tx.log) : ~C30_IsOracleCall(tx.log[i])
    /\ (tx.req.op = "transfer" /\ tx.mutated
        /\ SettingsCurrency[tx.req.user] # SettingsCurrency[tx.req.to_username]) =>
          \E i \in 1..Len(tx.log) : \E j \in 1..Len(tx.log) :
              i < j /\ tx.log[i] = "convert" /\ tx.log[j] = "write"

\* A transfer from an account in EUR: the rates are read inside the atomic
\* block, and once more after the balances were written.
C30_Witness ==
    /\ tx.req.op = "transfer"
    /\ tx.in_atomic /\ tx.mutated
    /\ tx.log = << "atomic", "convert", "write", "convert" >>

\* A market order that asked the market-status service and was executed.
C30_GateWitness ==
    /\ tx.req.op = "trade"
    /\ tx.log = << "atomic", "gate", "write", "commit" >>
    /\ last.req = tx.req /\ last.status = 201

=============================================================================
